---- MODULE Spec2Model ----
(***************************************************************************)
(* Model of IA-RESUMER.                                                    *)
(*                                                                         *)
(* Spec, SpecRestitch: the transcription pipeline,                         *)
(*   WhisperTranscriber.transcribe_enhanced, _preprocess_audio,            *)
(*   _transcribe_single and _transcribe_long_audio                         *)
(*   (src/src/core/transcriber.py) with the two splitters of               *)
(*   AudioProcessor (src/src/core/audio_processor.py).                     *)
(* SpecSplit: AudioProcessor.split_audio_by_duration called on its own.    *)
(* SpecFallback: WhisperTranscriber.transcribe_with_fallback.              *)
(* SpecCache: FileHandler.check_cache and save_cache                       *)
(*   (src/src/utils/file_handler.py).                                      *)
(* SpecMain: transcribe_file_enhanced (src/main.py).                       *)
(* SpecTime: the subtitle timestamp format, _seconds_to_time.              *)
(* SpecNorm: WhisperTranscriber._remove_repetitions.                       *)
(* SpecPost: WhisperTranscriber._postprocess_transcription with            *)
(*   _clean_segment_text and _calculate_quality_metrics.                   *)
(* SpecClean: clean_files_interactive (src/main.py) with                   *)
(*   FileHandler.clean_old_files.                                          *)
(* SpecFiles: the files transcribe_enhanced writes and unlinks.            *)
(*                                                                         *)
(* Times are integer ticks, so timestamp arithmetic is exact (the float    *)
(* rounding of the Python code is not modelled); scores are thousandths    *)
(* and confidences percent.  A text is a sequence of one-character         *)
(* strings; " " is the only whitespace character.                          *)
(***************************************************************************)
EXTENDS Integers, Sequences, FiniteSets, TLC

(* ------------------------------ bounds -------------------------------- *)

\* longest audio (ms) handed to split_audio_by_duration on its own
MaxDurationMs == 3500

\* largest window (s) handed to split_audio_by_duration on its own
MaxWindow == 2

\* latest time of the cache clock
MaxClock == 2

\* largest cache time-to-live
MaxTTL == 1

\* largest chunk-local timestamp a recognition result carries
MaxT == 1

\* largest number of segments in one recognition result
MaxSegs == 2

\* largest number of pieces the silence splitter returns
MaxPieces == 2

\* the chunk loop is explored for chunk lists of at most this length
MaxChunks == 3

\* largest number of whole hours in a formatted timestamp
MaxHours == 1

\* longest text handed to _remove_repetitions on its own
MaxTextLen == 7

\* largest number of segments in a result handed to
\* _postprocess_transcription on its own
MaxPostSegs == 2

(* ------------------------- program constants -------------------------- *)

\* transcribe_enhanced: "if duration > 300"
LongAudioThreshold == 300

\* _transcribe_long_audio: split_audio_by_duration(chunk_duration=240)
LongChunkDuration == 240

\* AUDIO_CONFIG["chunk_duration"], the splitter's own default window
DefaultChunkDuration == 30

\* _transcribe_long_audio: prev_text.split()[-10:]
HintWords == 10

\* transcribe_with_fallback: "if score > 0.85", in thousandths
GoodScore == 850

\* transcribe_with_fallback: "best_score = 0"
InitialBestScore == 0

\* _calculate_quality_metrics: "if c < 0.8", in percent
LowConfidence == 80

(* ------------------------------- texts -------------------------------- *)

Max(a, b) == IF a >= b THEN a ELSE b

Min(a, b) == IF a <= b THEN a ELSE b

RECURSIVE SplitAcc(_, _, _)
SplitAcc(s, cur, acc) ==
    IF s = <<>>
    THEN IF cur = <<>> THEN acc ELSE Append(acc, cur)
    ELSE IF Head(s) = " "
         THEN SplitAcc(Tail(s), <<>>, IF cur = <<>> THEN acc ELSE Append(acc, cur))
         ELSE SplitAcc(Tail(s), Append(cur, Head(s)), acc)

\* str.split(): the maximal runs of non-whitespace characters, in order
Split(text) == SplitAcc(text, <<>>, <<>>)

RECURSIVE Join(_, _)
\* sep.join(parts)
Join(sep, parts) ==
    IF parts = <<>> THEN <<>>
    ELSE IF Len(parts) = 1 THEN parts[1]
    ELSE parts[1] \o sep \o Join(sep, Tail(parts))

RECURSIVE LStrip(_)
LStrip(text) ==
    IF text # <<>> /\ Head(text) = " " THEN LStrip(Tail(text)) ELSE text

RECURSIVE RStrip(_)
RStrip(text) ==
    IF text # <<>> /\ text[Len(text)] = " "
    THEN RStrip(SubSeq(text, 1, Len(text) - 1))
    ELSE text

\* str.strip()
Strip(text) == RStrip(LStrip(text))

\* seq[-n:]
LastN(seq, n) == SubSeq(seq, Max(1, Len(seq) - n + 1), Len(seq))

\* the continuity hint with a window one word too short
ContinuityHintShort(prev_text) ==
    <<".", ".", ".">> \o Join(<<" ">>, LastN(Split(prev_text), HintWords - 1))

\* last_words = " ".join(prev_text.split()[-10:]); f"...{last_words}"
ContinuityHint(prev_text) ==
    <<".", ".", ".">> \o Join(<<" ">>, LastN(Split(prev_text), HintWords))

(* ------------------------ recognition results ------------------------- *)

THi == <<" ", "h", "i">>

TAB == <<" ", "a", " ", "b">>

\* twelve one-letter words, each preceded by a space
TLong ==
    <<" ", "a", " ", "b", " ", "c", " ", "d", " ", "e", " ", "f",
      " ", "g", " ", "h", " ", "i", " ", "j", " ", "k", " ", "l">>

TimePairs == {p \in (0..MaxT) \X (0..MaxT) : p[1] <= p[2]}

\* the chunk-local timings of a result: 0 <= start <= end, and each next
\* start is not before the previous end
Timings ==
    UNION {{t \in [1..n -> TimePairs] :
               \A k \in 1..(n - 1) : t[k + 1][1] >= t[k][2]} : n \in 0..MaxSegs}

DefaultTiming(n) == [k \in 1..n |-> <<k - 1, k>>]

TextSchemes == {"hi", "ab_hi", "long"}

SchemeText(scheme, k, n) ==
    CASE scheme = "hi" -> THi
      [] scheme = "ab_hi" -> IF k < n THEN TAB ELSE THi
      [] scheme = "long" -> TLong

RECURSIVE ConcatTexts(_)
ConcatTexts(texts) ==
    IF texts = <<>> THEN <<>> ELSE Head(texts) \o ConcatTexts(Tail(texts))

\* a result of model.transcribe: the text is the concatenation of the
\* segment texts, the ids count up from base, and with word_timestamps=True
\* (line 129) every segment carries its words, here one that spans the
\* segment in the chunk's own time
MkResult(t, scheme, base) ==
    LET n == Len(t)
        segs == [k \in 1..n |->
                    [id |-> base + k - 1, start |-> t[k][1], end |-> t[k][2],
                     text |-> SchemeText(scheme, k, n),
                     words |-> <<[start |-> t[k][1], end |-> t[k][2]]>>]]
    IN [text |-> ConcatTexts([k \in 1..n |-> segs[k].text]), segments |-> segs]

\* the results the recognition call may return for one audio file
RecognitionResults ==
    {MkResult(t, "hi", 0) : t \in Timings}
    \cup {MkResult(DefaultTiming(n), sch, 0) : n \in 1..MaxSegs, sch \in TextSchemes}
    \cup {MkResult(DefaultTiming(MaxSegs), "hi", 1)}

(* ------------------------------ splitters ----------------------------- *)

\* the slice that always has the full window length
SliceLengthUnclamped(i, duration_ms, chunk_duration_ms) == chunk_duration_ms

\* len(audio[i:i + chunk_duration_ms]): a slice ends where the audio ends
SliceLength(i, duration_ms, chunk_duration_ms) ==
    Min(i + chunk_duration_ms, duration_ms) - i

RECURSIVE RangeChunks(_, _, _)
\* for i in range(0, duration_ms, chunk_duration_ms): audio[i:i + chunk_duration_ms]
\* start is the position of the slice in the audio, ms its length
RangeChunks(i, duration_ms, chunk_duration_ms) ==
    IF i >= duration_ms THEN <<>>
    ELSE <<[kind |-> "chunk", index |-> i \div chunk_duration_ms,
            start |-> i,
            ms |-> SliceLength(i, duration_ms, chunk_duration_ms)]>>
         \o RangeChunks(i + chunk_duration_ms, duration_ms, chunk_duration_ms)

\* chunk_duration = chunk_duration or self.chunk_duration (0 stands for
\* None as well)
ChunkDurationOrDefault(chunk_duration) ==
    IF chunk_duration = 0 THEN DefaultChunkDuration ELSE chunk_duration

\* AudioProcessor.split_audio_by_duration: the files <stem>_chunk_NNN.wav
split_audio_by_duration(duration_ms, chunk_duration) ==
    RangeChunks(0, duration_ms, ChunkDurationOrDefault(chunk_duration) * 1000)

\* AudioProcessor.split_audio_by_silence on the pieces split_on_silence
\* found: no piece at all falls back to the splitter's default window,
\* otherwise the pieces become the files <stem>_segment_NNN.wav
split_audio_by_silence(duration_ms, pieces) ==
    IF pieces = <<>>
    THEN split_audio_by_duration(duration_ms, DefaultChunkDuration)
    ELSE [k \in 1..Len(pieces) |->
             [kind |-> "segment", index |-> k - 1, ms |-> pieces[k]]]

\* what pydub's split_on_silence may return for an audio of duration_ms:
\* n pieces, n = 0 for an audio that is silent throughout
SilenceOutcomes(duration_ms) ==
    {[k \in 1..n |-> duration_ms \div n] : n \in 0..MaxPieces}

\* _transcribe_long_audio, lines 246-259: silence first, then the 240 s window
LongAudioChunks(duration_ms, pieces) ==
    LET chunks0 == split_audio_by_silence(duration_ms, pieces)
    IN IF Len(chunks0) < 2
       THEN split_audio_by_duration(duration_ms, LongChunkDuration)
       ELSE chunks0

(* ------------------------------- state -------------------------------- *)

\* the file of TEMP_DIR a chunk was exported to: <stem>_chunk_NNN.wav or
\* <stem>_segment_NNN.wav
FileOf(chunk) == [kind |-> chunk.kind, index |-> chunk.index]

FilesOf(chunk_paths) == {FileOf(chunk_paths[k]) : k \in 1..Len(chunk_paths)}

\* the files _transcribe_long_audio, lines 246-259, has exported: those of
\* the silence splitter and, when it returned fewer than 2, those of the
\* 240 s window as well
LongAudioFiles(duration_ms, pieces) ==
    LET chunks0 == split_audio_by_silence(duration_ms, pieces)
    IN FilesOf(chunks0)
       \cup IF Len(chunks0) < 2
            THEN FilesOf(split_audio_by_duration(duration_ms, LongChunkDuration))
            ELSE {}

\* a dictionary key that is not present
Absent == -1

\* the durations (seconds) the probe reports; Absent is an audio_info
\* without a "duration" key, which .get("duration", 0) reads as 0
AudioInfos == {Absent, 0, 299, 300, 301, 620}

\* the durations followed for an input that _preprocess_audio converts
ConvertedInfos == {300, 301}

\* params["initial_prompt"] on entry (the language prompt)
LanguagePrompt == <<"p", "t">>

NoResult == [method |-> "none"]

NoError == [raised |-> FALSE, chunk |-> Absent]

VARIABLES
    pc,             \* position in transcribe_enhanced / _transcribe_long_audio
    audio_info,     \* the "duration" entry of get_audio_info(processed_path)
    silence_pieces, \* number of pieces split_on_silence returned
    chunks,         \* the chunk files to transcribe, in order
    i,              \* loop index of "for i, chunk_path in enumerate(chunks)"
    initial_prompt, \* params["initial_prompt"]
    chunk_result,   \* the result of the recognition call being stitched
    all_segments,
    full_text,
    total_duration,
    call_log,       \* history: the recognition calls made, in order
    produced,       \* history: each chunk's result as the recognition call returned it
    results,        \* each chunk's result object as it stands now
    result,         \* what _transcribe_long_audio / _transcribe_single returned
    error,          \* the exception that left the recognition call, if any
    pass,           \* 1, or 2 while the same result objects are stitched again
    first_result,   \* the value returned by the first pass
    input_exists,   \* audio_path.exists() on entry to transcribe_enhanced
    ideal_format,   \* the input is already a 16 kHz mono .wav
    temp_files,     \* the files of TEMP_DIR
    effects,        \* history: the operations carried out on the audio so far
    file_error,     \* the FileNotFoundError of transcribe_enhanced was raised
    sd_pc,          \* position of a call of split_audio_by_duration on its own
    sd_duration_ms, \* len(audio) of that call
    sd_chunk_duration, \* its chunk_duration argument (s), 0 for None
    sd_chunk_paths, \* the chunk_paths it returned
    fb_pc,          \* position in transcribe_with_fallback
    models,         \* its models argument
    model_index,    \* position of model_size in models, from 1
    best_result,
    best_score,     \* in thousandths
    attempts,       \* history: what each model attempt did, in order
    fb_result,      \* what transcribe_with_fallback returned
    cache_enabled,  \* FileHandler.cache_enabled
    cache_ttl,      \* FileHandler.cache_ttl
    time_now,       \* datetime.now()
    cache_files,    \* the .cache_<operation>_<hash>.json files of TRANSCRIPT_DIR
    last_call,      \* the FileHandler call made by the last step, with what
                    \* it returned and printed
    main_pc,        \* position in main.transcribe_file_enhanced
    request,        \* its model_size, quality_mode and output_format arguments
    generate_summary, \* its generate_summary argument
    old_transcript, \* the file at the output_path of an earlier run: "json",
                    \* "text" (txt, srt or vtt) or "missing"
    checked_entry,  \* history: the cache file as check_cache found it
    cached_result,
    events,         \* history: the steps transcribe_file_enhanced has taken
    summary,        \* what became of the summarization
    main_returned,  \* the output path transcribe_file_enhanced returned
    st_pc,          \* position of a call of _seconds_to_time
    st_seconds,     \* its seconds argument, in milliseconds
    st_vtt,         \* its vtt argument
    st_text,        \* the string it returned
    rr_pc,          \* position of a call of _remove_repetitions
    rr_text,        \* its text argument
    rr_once,        \* the text it returned
    rr_twice,       \* what it returned when called on rr_once
    pp_pc,          \* position of a call of _postprocess_transcription
    pp_raw,         \* its result argument as it was on entry
    pp_audio,       \* the length of the audio that result was recognised from
    pp_result,      \* the result it returned
    co_pc,          \* position in clean_files_interactive
    co_start,       \* the files of the three directories when it was called
    co_files,       \* the files of the three directories now
    co_simulated,   \* removed_count of clean_old_files(days, dry_run=True)
    co_removed,     \* removed_count of clean_old_files(days, dry_run=False)
    tf_pc,          \* position of a call of transcribe_enhanced, for its files
    tf_audio_path,  \* its audio_path argument
    tf_conforming,  \* whether that audio is 16 kHz mono
    tf_duration,    \* the duration (s) of that audio
    tf_files,       \* the files that exist
    tf_processed_path, \* processed_path of transcribe_enhanced
    tf_chunks,      \* the chunk paths the loop has still to go through
    tf_created,     \* the files the call has written
    tf_unlinked     \* the files the call has unlinked

\* the state of the transcription pipeline
pipelineVars ==
    <<pc, audio_info, silence_pieces, chunks, i, initial_prompt,
      chunk_result, all_segments, full_text, total_duration, call_log,
      produced, results, result, error, pass, first_result,
      input_exists, ideal_format, temp_files, effects, file_error>>

\* the state of the other operations, which the pipeline leaves alone
splitVars == <<sd_pc, sd_duration_ms, sd_chunk_duration, sd_chunk_paths>>

fallbackVars ==
    <<fb_pc, models, model_index, best_result, best_score, attempts, fb_result>>

cacheVars == <<cache_enabled, cache_ttl, time_now, cache_files, last_call>>

mainVars ==
    <<main_pc, request, generate_summary, old_transcript, checked_entry, cached_result,
      events, summary, main_returned>>

timeVars == <<st_pc, st_seconds, st_vtt, st_text>>

normVars == <<rr_pc, rr_text, rr_once, rr_twice>>

\* the state of the operations that are called on their own
postVars == <<pp_pc, pp_raw, pp_audio, pp_result>>

cleanVars == <<co_pc, co_start, co_files, co_simulated, co_removed>>

filesVars ==
    <<tf_pc, tf_audio_path, tf_conforming, tf_duration, tf_files,
      tf_processed_path, tf_chunks, tf_created, tf_unlinked>>

laterVars == <<timeVars, normVars, postVars, cleanVars, filesVars>>

nonPipelineVars == <<splitVars, fallbackVars, cacheVars, mainVars, laterVars>>

vars == <<pipelineVars, nonPipelineVars>>

\* the other operations have not been started
SplitIdle ==
    /\ sd_pc = "idle"
    /\ sd_duration_ms = 0
    /\ sd_chunk_duration = 0
    /\ sd_chunk_paths = <<>>

\* best_result = None
None == [none |-> TRUE]

FallbackIdle ==
    /\ fb_pc = "idle"
    /\ models = <<>>
    /\ model_index = 1
    /\ best_result = None
    /\ best_score = InitialBestScore
    /\ attempts = <<>>
    /\ fb_result = None

\* (file_hash, operation) pairs, each naming one cache file
CacheKeys ==
    {<<"h1", "transcription">>, <<"h2", "transcription">>, <<"h1", "summary">>}

\* a cache file that does not exist
NoFile == [exists |-> FALSE, text |-> [json |-> FALSE, id |-> 0], mtime |-> Absent]

NoCall == [op |-> "none", key |-> <<"", "">>, data |-> None, returned |-> None,
           printed |-> ""]

\* an empty TRANSCRIPT_DIR at time 0
CacheFresh ==
    /\ time_now = 0
    /\ cache_files = [k \in CacheKeys |-> NoFile]
    /\ last_call = NoCall

\* no FileHandler is used
CacheIdle ==
    /\ cache_enabled = TRUE
    /\ cache_ttl = 0
    /\ CacheFresh

\* transcribe_file_enhanced has taken no step
NoSummary == [state |-> "none", payload |-> None]

MainFresh ==
    /\ checked_entry = NoFile
    /\ cached_result = None
    /\ events = <<>>
    /\ summary = NoSummary
    /\ main_returned = ""

NoRequest == [model_size |-> "", quality_mode |-> "", output_format |-> ""]

\* transcribe_file_enhanced is not called
MainIdle ==
    /\ main_pc = "idle"
    /\ request = NoRequest
    /\ generate_summary = FALSE
    /\ old_transcript = "missing"
    /\ MainFresh

\* _seconds_to_time is not called
TimeIdle ==
    /\ st_pc = "idle"
    /\ st_seconds = 0
    /\ st_vtt = FALSE
    /\ st_text = <<>>

\* _remove_repetitions is not called
NormIdle ==
    /\ rr_pc = "idle"
    /\ rr_text = <<>>
    /\ rr_once = <<>>
    /\ rr_twice = <<>>

\* _postprocess_transcription is not called
PostIdle ==
    /\ pp_pc = "idle"
    /\ pp_raw = NoResult
    /\ pp_audio = 0
    /\ pp_result = NoResult

\* removed_count before any file is looked at
NoneRemoved == [uploads |-> 0, transcripts |-> 0, temp |-> 0, cache |-> 0]

\* clean_files_interactive is not called
CleanIdle ==
    /\ co_pc = "idle"
    /\ co_start = {}
    /\ co_files = {}
    /\ co_simulated = NoneRemoved
    /\ co_removed = NoneRemoved

\* a path: its directory, the parts of its stem, which "_" joins, and its
\* suffix
MkPath(dir, stem, suffix) == [dir |-> dir, stem |-> stem, suffix |-> suffix]

\* no path
NoPath == MkPath("", <<>>, "")

\* transcribe_enhanced is not called (the file system is not looked at)
FilesIdle ==
    /\ tf_pc = "idle"
    /\ tf_audio_path = NoPath
    /\ tf_conforming = FALSE
    /\ tf_duration = 0
    /\ tf_files = {}
    /\ tf_processed_path = NoPath
    /\ tf_chunks = <<>>
    /\ tf_created = {}
    /\ tf_unlinked = {}

LaterIdle == TimeIdle /\ NormIdle /\ PostIdle /\ CleanIdle /\ FilesIdle

coreVars == <<pipelineVars, splitVars, fallbackVars, cacheVars, mainVars>>

NonPipelineIdle ==
    SplitIdle /\ FallbackIdle /\ CacheIdle /\ MainIdle /\ LaterIdle

Last(seq) == seq[Len(seq)]

\* normalize_audio: <stem>_converted_normalized.wav
NormalizedFile == [kind |-> "normalized", index |-> 0]

\* audio_info.get("duration", 0)
DurationOf(info) == IF info = Absent THEN 0 ELSE info

\* the inputs of one run: whether the path exists, whether the file is
\* already in the ideal format, and the duration the probe reports; a
\* file that needs conversion is followed up to ConvertedInfos only
Inputs ==
    {[exists |-> FALSE, ideal |-> TRUE, info |-> Absent]}
    \cup {[exists |-> TRUE, ideal |-> TRUE, info |-> d] : d \in AudioInfos}
    \cup {[exists |-> TRUE, ideal |-> FALSE, info |-> d] : d \in ConvertedInfos}

\* the accumulators, histories and TEMP_DIR before anything has run
PipelineEmpty ==
    /\ temp_files = {}
    /\ effects = {}
    /\ file_error = FALSE
    /\ silence_pieces = Absent
    /\ chunks = <<>>
    /\ i = 0
    /\ initial_prompt = LanguagePrompt
    /\ chunk_result = NoResult
    /\ all_segments = <<>>
    /\ full_text = <<>>
    /\ total_duration = 0
    /\ call_log = <<>>
    /\ produced = <<>>
    /\ results = <<>>
    /\ result = NoResult
    /\ error = NoError
    /\ pass = 1
    /\ first_result = NoResult

\* the pipeline before transcribe_enhanced is entered
PipelineInit ==
    /\ pc = "start"
    /\ \E inp \in Inputs :
          /\ input_exists = inp.exists
          /\ ideal_format = inp.ideal
          /\ audio_info = inp.info
    /\ PipelineEmpty

\* transcribe_enhanced is not called
PipelineIdle ==
    /\ pc = "idle"
    /\ input_exists = TRUE
    /\ ideal_format = TRUE
    /\ audio_info = Absent
    /\ PipelineEmpty

Init == PipelineInit /\ NonPipelineIdle

\* the pipeline, the splitter, the fallback, the cache and main are not used
CoreIdle == PipelineIdle /\ SplitIdle /\ FallbackIdle /\ CacheIdle /\ MainIdle

(* ------------------------- transcribe_enhanced ------------------------ *)

\* the path test with the boundary on the wrong side
UseChunksInclusive(duration) == duration >= LongAudioThreshold

\* "if duration > 300"
UseChunks(duration) == duration > LongAudioThreshold

\* the position after a missing file that is only reported: the
\* preprocessing goes ahead
OnMissingFileContinue == "preprocess"

\* "raise FileNotFoundError": the error leaves transcribe_enhanced
OnMissingFile == "failed"

\* transcribe_enhanced, lines 106-108: a path that does not exist raises
\* FileNotFoundError before anything else is done
CheckExists ==
    /\ pc = "start"
    /\ IF input_exists
       THEN pc' = "preprocess" /\ UNCHANGED file_error
       ELSE pc' = OnMissingFile /\ file_error' = TRUE
    /\ UNCHANGED nonPipelineVars
    /\ UNCHANGED <<input_exists, ideal_format, temp_files, effects>>
    /\ UNCHANGED <<audio_info, silence_pieces, chunks, i, initial_prompt,
                   chunk_result, all_segments, full_text, total_duration,
                   call_log, produced, results, result, error, pass, first_result>>

\* _preprocess_audio: probe the input; unless it is a 16 kHz mono .wav,
\* convert it, normalize the converted file and remove the converted file
PreprocessAudio ==
    /\ pc = "preprocess"
    /\ IF ideal_format
       THEN /\ effects' = effects \cup {"probe"}
            /\ UNCHANGED temp_files
       ELSE /\ effects' = effects \cup {"probe", "convert", "normalize"}
            /\ temp_files' = temp_files \cup {NormalizedFile}
    /\ pc' = "probe"
    /\ UNCHANGED nonPipelineVars
    /\ UNCHANGED <<input_exists, ideal_format, file_error>>
    /\ UNCHANGED <<audio_info, silence_pieces, chunks, i, initial_prompt,
                   chunk_result, all_segments, full_text, total_duration,
                   call_log, produced, results, result, error, pass, first_result>>

\* transcribe_enhanced, lines 141-148: probe the duration, choose the path
Probe ==
    /\ pc = "probe"
    /\ effects' = effects \cup {"probe"}
    /\ pc' = IF UseChunks(DurationOf(audio_info)) THEN "split" ELSE "single"
    /\ UNCHANGED nonPipelineVars
    /\ UNCHANGED <<input_exists, ideal_format, temp_files, file_error>>
    /\ UNCHANGED <<audio_info, silence_pieces, chunks, i, initial_prompt,
                   chunk_result, all_segments, full_text, total_duration,
                   call_log, produced, results, result, error, pass, first_result>>

\* _transcribe_single on the whole file: the recognition call returns
SingleReturn ==
    /\ pc = "single"
    /\ \E r \in RecognitionResults :
          /\ call_log' = Append(call_log, [chunk |-> Absent, initial_prompt |-> initial_prompt])
          /\ result' = [text |-> r.text, segments |-> r.segments,
                        duration |-> Absent, method |-> "single",
                        num_chunks |-> Absent]
    /\ effects' = effects \cup {"recognise"}
    /\ pc' = "returned"
    /\ UNCHANGED nonPipelineVars
    /\ UNCHANGED <<input_exists, ideal_format, temp_files, file_error>>
    /\ UNCHANGED <<audio_info, silence_pieces, chunks, i, initial_prompt,
                   chunk_result, all_segments, full_text, total_duration,
                   produced, results, error, pass, first_result>>

\* _transcribe_single on the whole file: the recognition call raises
SingleRaise ==
    /\ pc = "single"
    /\ call_log' = Append(call_log, [chunk |-> Absent, initial_prompt |-> initial_prompt])
    /\ error' = [raised |-> TRUE, chunk |-> Absent]
    /\ effects' = effects \cup {"recognise"}
    /\ pc' = "failed"
    /\ UNCHANGED nonPipelineVars
    /\ UNCHANGED <<input_exists, ideal_format, temp_files, file_error>>
    /\ UNCHANGED <<audio_info, silence_pieces, chunks, i, initial_prompt,
                   chunk_result, all_segments, full_text, total_duration,
                   produced, results, result, pass, first_result>>

(* ----------------------- _transcribe_long_audio ----------------------- *)

\* lines 246-266: split the audio and initialise the accumulators
SplitAudio ==
    /\ pc = "split"
    /\ \E pieces \in SilenceOutcomes(DurationOf(audio_info) * 1000) :
          /\ silence_pieces' = Len(pieces)
          /\ chunks' = LongAudioChunks(DurationOf(audio_info) * 1000, pieces)
          /\ temp_files' = temp_files
                \cup LongAudioFiles(DurationOf(audio_info) * 1000, pieces)
    /\ effects' = effects \cup {"split"}
    /\ i' = 0
    /\ all_segments' = <<>>
    /\ full_text' = <<>>
    /\ total_duration' = 0
    /\ pc' = "loop"
    /\ UNCHANGED nonPipelineVars
    /\ UNCHANGED <<input_exists, ideal_format, file_error>>
    /\ UNCHANGED <<audio_info, initial_prompt, chunk_result, call_log,
                   produced, results, result, error, pass, first_result>>

\* lines 268-279: the continuity hint, then the recognition call starts
StartChunk ==
    /\ pc = "loop"
    /\ Len(chunks) <= MaxChunks
    /\ i < Len(chunks)
    /\ initial_prompt' =
          IF i > 0 /\ all_segments # <<>>
          THEN ContinuityHint(Last(all_segments).text)
          ELSE initial_prompt
    /\ call_log' = Append(call_log, [chunk |-> i, initial_prompt |-> initial_prompt'])
    /\ effects' = effects \cup {"recognise"}
    /\ pc' = "recognising"
    /\ UNCHANGED nonPipelineVars
    /\ UNCHANGED <<input_exists, ideal_format, temp_files, file_error>>
    /\ UNCHANGED <<audio_info, silence_pieces, chunks, i, chunk_result,
                   all_segments, full_text, total_duration, produced,
                   results, result, error, pass, first_result>>

\* line 279: the recognition call of chunk i returns
RecogniseReturn ==
    /\ pc = "recognising"
    /\ IF pass = 1
       THEN \E r \in RecognitionResults :
               /\ chunk_result' = r
               /\ produced' = Append(produced, r)
       ELSE /\ chunk_result' = results[i + 1]
            /\ UNCHANGED produced
    /\ pc' = "stitch"
    /\ UNCHANGED nonPipelineVars
    /\ UNCHANGED <<input_exists, ideal_format, temp_files, effects, file_error>>
    /\ UNCHANGED <<audio_info, silence_pieces, chunks, i, initial_prompt,
                   all_segments, full_text, total_duration, call_log,
                   results, result, error, pass, first_result>>

\* the position after a recognition error that is swallowed: the loop goes on
AfterRaiseContinue == "loop"

\* no try/except around line 279: the error leaves _transcribe_long_audio
\* and transcribe_enhanced
AfterRaise == "failed"

\* line 279: the recognition call of chunk i raises
RecogniseRaise ==
    /\ pc = "recognising"
    /\ pass = 1
    /\ error' = [raised |-> TRUE, chunk |-> i]
    /\ pc' = AfterRaise
    /\ UNCHANGED nonPipelineVars
    /\ UNCHANGED <<input_exists, ideal_format, temp_files, effects, file_error>>
    /\ UNCHANGED <<audio_info, silence_pieces, chunks, i, initial_prompt,
                   chunk_result, all_segments, full_text, total_duration,
                   call_log, produced, results, result, pass, first_result>>

\* the timestamp adjustment that leaves the segment end where it was
ShiftSegmentStartOnly(segment, time_offset, count) ==
    [segment EXCEPT !.start = @ + time_offset, !.id = count + @]

\* the timestamp adjustment that forgets to renumber
ShiftSegmentKeepId(segment, time_offset, count) ==
    [segment EXCEPT !.start = @ + time_offset, !.end = @ + time_offset]

\* the timestamp adjustment that numbers the segments from one
ShiftSegmentIdFromOne(segment, time_offset, count) ==
    [segment EXCEPT !.start = @ + time_offset,
                    !.end = @ + time_offset,
                    !.id = count + @ + 1]

\* lines 285-287: one segment of the chunk, adjusted in place; its words
\* are not touched
ShiftSegment(segment, time_offset, count) ==
    [segment EXCEPT !.start = @ + time_offset,
                    !.end = @ + time_offset,
                    !.id = count + @]

\* the adjustment that loses the chunk's first segment
AdjustTimestampsSkipFirst(segments, accumulated) ==
    IF accumulated # <<>> /\ segments # <<>>
    THEN LET time_offset == Last(accumulated).end
         IN [k \in 1..(Len(segments) - 1) |->
                ShiftSegment(segments[k + 1], time_offset, Len(accumulated))]
    ELSE segments

\* lines 282-287: the chunk's segments after the adjustment
AdjustTimestamps(segments, accumulated) ==
    IF accumulated # <<>>
    THEN LET time_offset == Last(accumulated).end
         IN [k \in 1..Len(segments) |->
                ShiftSegment(segments[k], time_offset, Len(accumulated))]
    ELSE segments

\* the duration update that an empty chunk resets
UpdateDurationReset(duration, raw_segments, adjusted) ==
    IF adjusted # <<>> THEN Last(adjusted).end ELSE 0

\* lines 294-295: total_duration follows the last segment of the chunk
UpdateDuration(duration, raw_segments, adjusted) ==
    IF adjusted # <<>> THEN Last(adjusted).end ELSE duration

\* the index step that skips a chunk
NextIndexSkip(index) == index + 2

\* enumerate(chunks): the next chunk
NextIndex(index) == index + 1

\* lines 281-298: stitch the chunk's result onto the accumulated transcript
Stitch ==
    /\ pc = "stitch"
    /\ LET adjusted == AdjustTimestamps(chunk_result.segments, all_segments)
           stored == [chunk_result EXCEPT !.segments = adjusted]
       IN /\ all_segments' = all_segments \o adjusted
          /\ full_text' = Append(full_text, Strip(chunk_result.text))
          /\ total_duration' =
                UpdateDuration(total_duration, chunk_result.segments, adjusted)
          /\ results' = IF pass = 1
                        THEN Append(results, stored)
                        ELSE [results EXCEPT ![i + 1] = stored]
    /\ temp_files' = temp_files \ {FileOf(chunks[i + 1])}
    /\ i' = NextIndex(i)
    /\ pc' = "loop"
    /\ UNCHANGED nonPipelineVars
    /\ UNCHANGED <<input_exists, ideal_format, effects, file_error>>
    /\ UNCHANGED <<audio_info, silence_pieces, chunks, initial_prompt,
                   chunk_result, call_log, produced, result, error,
                   pass, first_result>>

\* lines 300-310: the loop is over, the combined result is returned
Finish ==
    /\ pc = "loop"
    /\ i >= Len(chunks)
    /\ result' = [text |-> Join(<<" ">>, full_text),
                  segments |-> all_segments,
                  duration |-> total_duration,
                  method |-> "chunks",
                  num_chunks |-> Len(chunks)]
    /\ pc' = "returned"
    /\ UNCHANGED nonPipelineVars
    /\ UNCHANGED <<input_exists, ideal_format, temp_files, effects, file_error>>
    /\ UNCHANGED <<audio_info, silence_pieces, chunks, i, initial_prompt,
                   chunk_result, all_segments, full_text, total_duration,
                   call_log, produced, results, error, pass, first_result>>

\* lines 264-298 run once more over the result objects of the first pass
Restitch ==
    /\ pc = "returned"
    /\ pass = 1
    /\ result.method = "chunks"
    /\ first_result' = result
    /\ pass' = 2
    /\ i' = 0
    /\ all_segments' = <<>>
    /\ full_text' = <<>>
    /\ total_duration' = 0
    /\ result' = NoResult
    /\ pc' = "loop"
    /\ UNCHANGED nonPipelineVars
    /\ UNCHANGED <<input_exists, ideal_format, temp_files, effects, file_error>>
    /\ UNCHANGED <<audio_info, silence_pieces, chunks, initial_prompt,
                   chunk_result, call_log, produced, results, error>>

Next ==
    \/ CheckExists
    \/ PreprocessAudio
    \/ Probe
    \/ SingleReturn
    \/ SingleRaise
    \/ SplitAudio
    \/ StartChunk
    \/ RecogniseReturn
    \/ RecogniseRaise
    \/ Stitch
    \/ Finish

Spec == Init /\ [][Next]_vars

NextRestitch == Next \/ Restitch

\* the pipeline followed by a second stitching pass over the same objects
SpecRestitch == Init /\ [][NextRestitch]_vars

(* ---------------- split_audio_by_duration on its own ------------------ *)

\* a call of split_audio_by_duration on an audio of any length up to
\* MaxDurationMs with any window up to MaxWindow
SplitInit ==
    /\ sd_pc = "call"
    /\ sd_duration_ms \in 0..MaxDurationMs
    /\ sd_chunk_duration \in 0..MaxWindow
    /\ sd_chunk_paths = <<>>

\* AudioProcessor.split_audio_by_duration: slice, export, return the paths
SplitByDuration ==
    /\ sd_pc = "call"
    /\ sd_chunk_paths' = split_audio_by_duration(sd_duration_ms, sd_chunk_duration)
    /\ temp_files' = temp_files \cup FilesOf(sd_chunk_paths')
    /\ sd_pc' = "returned"
    /\ UNCHANGED <<sd_duration_ms, sd_chunk_duration>>
    /\ UNCHANGED <<fallbackVars, cacheVars, mainVars, laterVars>>
    /\ UNCHANGED <<input_exists, ideal_format, effects, file_error>>
    /\ UNCHANGED <<pc, audio_info, silence_pieces, chunks, i, initial_prompt,
                   chunk_result, all_segments, full_text, total_duration,
                   call_log, produced, results, result, error, pass, first_result>>

NextSplit == SplitByDuration

InitSplit ==
    PipelineIdle /\ SplitInit /\ FallbackIdle /\ CacheIdle /\ MainIdle /\ LaterIdle

SpecSplit == InitSplit /\ [][NextSplit]_vars

(* ---------------------- transcribe_with_fallback ---------------------- *)

\* models: List[str] = ["small", "medium", "large"]
DefaultModels == <<"small", "medium", "large">>

\* the model lists tried: the default list and its prefixes
ModelLists == {SubSeq(DefaultModels, 1, n) : n \in 0..Len(DefaultModels)}

\* average segment confidences and silence ratios, in percent
AvgLevels == {0, 70, 90, 100}

SilenceLevels == {0, 50, 100}

SegmentCounts == {0, 1, 2}

\* the quality_metrics _calculate_quality_metrics can attach to a result:
\* without segments everything is 0; otherwise low_confidence_segments
\* counts the segments below LowConfidence, which bounds their average
QualityMetrics ==
    {m \in [avg_segment_confidence : AvgLevels, silence_ratio : SilenceLevels,
            low_confidence_segments : SegmentCounts, total_segments : SegmentCounts] :
        /\ m.low_confidence_segments <= m.total_segments
        /\ m.total_segments = 0 =>
              m.avg_segment_confidence = 0 /\ m.silence_ratio = 0
        /\ m.total_segments > 0 /\ m.low_confidence_segments = 0 =>
              m.avg_segment_confidence >= LowConfidence
        /\ m.total_segments > 0 /\ m.low_confidence_segments = m.total_segments =>
              m.avg_segment_confidence < LowConfidence
        /\ m.low_confidence_segments \in 1..(m.total_segments - 1) =>
              /\ m.avg_segment_confidence * m.total_segments
                    >= LowConfidence * (m.total_segments - m.low_confidence_segments)
              /\ m.avg_segment_confidence * m.total_segments
                    < LowConfidence * m.low_confidence_segments
                      + 100 * (m.total_segments - m.low_confidence_segments)}

\* lines 471-475, in thousandths: avg * 0.5 + (1 - silence_ratio) * 0.3
\* + (1 - low / max(total, 1)) * 0.2
Score(metrics) ==
    metrics.avg_segment_confidence * 5
    + (100 - metrics.silence_ratio) * 3
    + (100 - (100 * metrics.low_confidence_segments)
                \div Max(metrics.total_segments, 1)) * 2

\* the stop test that also stops on the threshold itself
GoodEnoughInclusive(score) == score >= GoodScore

\* "if score > 0.85: break"
GoodEnough(score) == score > GoodScore

\* the comparison that lets a later attempt of equal score win
BetterOrEqual(score, best) == score >= best

\* "if score > best_score"
Better(score, best) == score > best

FallbackInit ==
    /\ fb_pc = "loop"
    /\ models \in ModelLists
    /\ model_index = 1
    /\ best_result = None
    /\ best_score = InitialBestScore
    /\ attempts = <<>>
    /\ fb_result = None

\* lines 457-467 raise (loading the model or transcribing): caught at
\* line 489, the loop continues with the next model
AttemptRaises ==
    /\ fb_pc = "loop"
    /\ model_index <= Len(models)
    /\ attempts' = Append(attempts, [model |-> models[model_index], raised |-> TRUE,
                                     metrics |-> None, score |-> Absent])
    /\ model_index' = model_index + 1
    /\ UNCHANGED <<fb_pc, models, best_result, best_score, fb_result>>
    /\ UNCHANGED <<pipelineVars, splitVars, cacheVars, mainVars, laterVars>>

\* lines 457-487: the attempt returns a result, which is scored, kept if
\* it is the best so far, and ends the loop if it is good enough
AttemptReturns ==
    /\ fb_pc = "loop"
    /\ model_index <= Len(models)
    /\ \E metrics \in QualityMetrics :
          LET model_size == models[model_index]
              score == Score(metrics)
          IN /\ attempts' = Append(attempts, [model |-> model_size, raised |-> FALSE,
                                              metrics |-> metrics, score |-> score])
             /\ IF Better(score, best_score)
                THEN /\ best_result' = [quality_metrics |-> metrics,
                                        model_used |-> model_size]
                     /\ best_score' = score
                ELSE UNCHANGED <<best_result, best_score>>
             /\ IF GoodEnough(score)
                THEN fb_pc' = "after_loop" /\ UNCHANGED model_index
                ELSE model_index' = model_index + 1 /\ UNCHANGED fb_pc
    /\ UNCHANGED <<models, fb_result>>
    /\ UNCHANGED <<pipelineVars, splitVars, cacheVars, mainVars, laterVars>>

\* the list is exhausted
LoopEnds ==
    /\ fb_pc = "loop"
    /\ model_index > Len(models)
    /\ fb_pc' = "after_loop"
    /\ UNCHANGED <<models, model_index, best_result, best_score, attempts, fb_result>>
    /\ UNCHANGED <<pipelineVars, splitVars, cacheVars, mainVars, laterVars>>

\* lines 493-497: "if not best_result: raise RuntimeError", else return it
Conclude ==
    /\ fb_pc = "after_loop"
    /\ IF best_result = None
       THEN fb_pc' = "failed" /\ UNCHANGED fb_result
       ELSE fb_pc' = "returned" /\ fb_result' = best_result
    /\ UNCHANGED <<models, model_index, best_result, best_score, attempts>>
    /\ UNCHANGED <<pipelineVars, splitVars, cacheVars, mainVars, laterVars>>

NextFallback ==
    \/ AttemptRaises
    \/ AttemptReturns
    \/ LoopEnds
    \/ Conclude

InitFallback ==
    PipelineIdle /\ SplitIdle /\ FallbackInit /\ CacheIdle /\ MainIdle /\ LaterIdle

SpecFallback == InitFallback /\ [][NextFallback]_vars

(* ------------------------- FileHandler cache -------------------------- *)

\* the data handed to save_cache: two dicts of plain JSON values, a dict
\* holding a tuple where the second holds a list, and a dict holding an
\* object json cannot serialise
Documents ==
    {[kind |-> "json", id |-> 1], [kind |-> "json", id |-> 2],
     [kind |-> "tuple", id |-> 2], [kind |-> "object", id |-> 3]}

\* json.dump(data, f): the text written; an object that cannot be
\* serialised raises and leaves the file truncated
JsonDump(data) ==
    IF data.kind = "object"
    THEN [ok |-> FALSE, text |-> [json |-> FALSE, id |-> 0]]
    ELSE [ok |-> TRUE, text |-> [json |-> TRUE, id |-> data.id]]

\* the parser that makes a dict out of a truncated text as well
JsonLoadLenient(text) == [ok |-> TRUE, data |-> [kind |-> "json", id |-> text.id]]

\* json.load(f): the dict of plain JSON values a complete text holds
JsonLoad(text) ==
    IF text.json
    THEN [ok |-> TRUE, data |-> [kind |-> "json", id |-> text.id]]
    ELSE [ok |-> FALSE, data |-> None]

\* the expiry test that already expires an entry at the TTL itself
ExpiredAtTTL(mtime, t, ttl) == t - mtime >= ttl

\* "file_age > timedelta(seconds=self.cache_ttl)"
Expired(mtime, t, ttl) == t - mtime > ttl

\* FileHandler.check_cache: what it returns and prints, and the files after
check_cache(files, key, enabled, ttl, t) ==
    IF ~enabled
    THEN [returned |-> None, printed |-> "", files |-> files]
    ELSE IF ~files[key].exists
    THEN [returned |-> None, printed |-> "", files |-> files]
    ELSE IF Expired(files[key].mtime, t, ttl)
    THEN [returned |-> None, printed |-> "Cache expirado",
          files |-> [files EXCEPT ![key] = NoFile]]
    ELSE IF JsonLoad(files[key].text).ok
    THEN [returned |-> JsonLoad(files[key].text).data, printed |-> "Usando cache",
          files |-> files]
    ELSE [returned |-> None, printed |-> "Erro ao ler cache", files |-> files]

\* the write that leaves the modification time of an existing file alone
WriteFileKeepMtime(old, text, t) ==
    [exists |-> TRUE, text |-> text, mtime |-> IF old.exists THEN old.mtime ELSE t]

\* open(cache_file, "w") and the write: the file holds text, modified at t
WriteFile(old, text, t) == [exists |-> TRUE, text |-> text, mtime |-> t]

\* FileHandler.save_cache; can_open is whether open(cache_file, "w") succeeds
save_cache(files, key, data, enabled, t, can_open) ==
    IF ~enabled
    THEN [printed |-> "", files |-> files]
    ELSE IF ~can_open
    THEN [printed |-> "Erro ao salvar cache", files |-> files]
    ELSE [printed |-> IF JsonDump(data).ok THEN "" ELSE "Erro ao salvar cache",
          files |-> [files EXCEPT ![key] = WriteFile(@, JsonDump(data).text, t)]]

CacheInit ==
    /\ cache_enabled \in BOOLEAN
    /\ cache_ttl \in 0..MaxTTL
    /\ CacheFresh

\* a call of check_cache
CheckCache ==
    /\ \E key \in CacheKeys :
          LET r == check_cache(cache_files, key, cache_enabled, cache_ttl,
                               time_now)
          IN /\ cache_files' = r.files
             /\ last_call' = [op |-> "check", key |-> key, data |-> None,
                              returned |-> r.returned, printed |-> r.printed]
    /\ UNCHANGED <<cache_enabled, cache_ttl, time_now>>
    /\ UNCHANGED <<pipelineVars, splitVars, fallbackVars, mainVars, laterVars>>

\* a call of save_cache
SaveCache ==
    /\ \E key \in CacheKeys, data \in Documents, can_open \in BOOLEAN :
          LET r == save_cache(cache_files, key, data, cache_enabled, time_now,
                              can_open)
          IN /\ cache_files' = r.files
             /\ last_call' = [op |-> "save", key |-> key, data |-> data,
                              returned |-> None, printed |-> r.printed]
    /\ UNCHANGED <<cache_enabled, cache_ttl, time_now>>
    /\ UNCHANGED <<pipelineVars, splitVars, fallbackVars, mainVars, laterVars>>

\* time passes between two calls
Tick ==
    /\ time_now < MaxClock
    /\ time_now' = time_now + 1
    /\ last_call' = NoCall
    /\ UNCHANGED <<cache_enabled, cache_ttl, cache_files>>
    /\ UNCHANGED <<pipelineVars, splitVars, fallbackVars, mainVars, laterVars>>

NextCache ==
    \/ CheckCache
    \/ SaveCache
    \/ Tick

InitCache ==
    PipelineIdle /\ SplitIdle /\ FallbackIdle /\ CacheInit /\ MainIdle /\ LaterIdle

SpecCache == InitCache /\ [][NextCache]_vars

(* ------------------- main.transcribe_file_enhanced -------------------- *)

\* the cache file of the input: check_cache(file_hash, "transcription")
MainKey == <<"h1", "transcription">>

\* the data an earlier run cached, and the data this run caches:
\* {"output_path": ..., "result": ...}
OldData == [kind |-> "json", id |-> 1]

NewData == [kind |-> "json", id |-> 2]

\* cached_result.get("output_path", "")
OutputPathOf(data) == IF data = OldData THEN "old" ELSE "new"

\* the cache file of the input when transcribe_file_enhanced is called:
\* none, or one an earlier run wrote, completely or not, at some time
MainEntries ==
    {NoFile}
    \cup {[exists |-> TRUE, text |-> t, mtime |-> m] :
             t \in {JsonDump(OldData).text, [json |-> FALSE, id |-> 0]},
             m \in 0..MaxClock}

\* the arguments of transcribe_file_enhanced that select the model, the
\* transcription mode and the format of the transcript
Requests ==
    [model_size : {"base", "auto"}, quality_mode : {"enhanced", "basic"},
     output_format : {"json", "srt"}]

MainInit ==
    /\ main_pc = "start"
    /\ request \in Requests
    /\ generate_summary \in BOOLEAN
    /\ old_transcript \in {"json", "text", "missing"}
    /\ MainFresh
    /\ cache_enabled \in BOOLEAN
    /\ cache_ttl \in 0..MaxTTL
    /\ time_now = MaxClock
    /\ \E entry \in MainEntries :
          cache_files = [k \in CacheKeys |-> IF k = MainKey THEN entry ELSE NoFile]
    /\ last_call = NoCall

\* OllamaSummarizer.summarize: a text that is too short, a request that
\* fails and a request that succeeds all return a payload
summarize(long_enough, request_ok) ==
    IF ~long_enough
    THEN [summary |-> "Texto muito curto para resumir.", error |-> "insufficient_content"]
    ELSE IF request_ok
    THEN [summary |-> "response", error |-> ""]
    ELSE [summary |-> "Erro ao processar", error |-> "exception"]

\* main.py 384-414 and 198-227, inside "try ... except Exception": the
\* summarizer cannot be constructed, or it summarizes and the summaries
\* are written, or writing them fails
SummaryOutcomes ==
    {[state |-> "constructor_raised", payload |-> None]}
    \cup {[state |-> st, payload |-> summarize(long_enough, request_ok)] :
             st \in {"saved", "write_failed"},
             long_enough \in BOOLEAN, request_ok \in BOOLEAN}

\* lines 305-313: an invalid file ends the program with sys.exit(1)
Validate ==
    /\ main_pc = "start"
    /\ \E is_valid \in BOOLEAN :
          main_pc' = IF is_valid THEN "check" ELSE "exited"
    /\ events' = Append(events, "validate")
    /\ UNCHANGED <<request, generate_summary, old_transcript, checked_entry,
                   cached_result, summary, main_returned>>
    /\ UNCHANGED <<pipelineVars, splitVars, fallbackVars, cacheVars, laterVars>>

\* "if cached_result:"
Truthy(value) == value # None

\* lines 315-320: look the input up in the cache
CheckCacheMain ==
    /\ main_pc = "check"
    /\ LET r == check_cache(cache_files, MainKey, cache_enabled, cache_ttl,
                            time_now)
       IN /\ checked_entry' = cache_files[MainKey]
          /\ cache_files' = r.files
          /\ last_call' = [op |-> "check", key |-> MainKey, data |-> None,
                           returned |-> r.returned, printed |-> r.printed]
          /\ cached_result' = r.returned
          /\ main_pc' = IF Truthy(r.returned) THEN "hit" ELSE "transcribe"
    /\ events' = Append(events, "check_cache")
    /\ UNCHANGED <<cache_enabled, cache_ttl, time_now>>
    /\ UNCHANGED <<request, generate_summary, old_transcript, summary, main_returned>>
    /\ UNCHANGED <<pipelineVars, splitVars, fallbackVars, laterVars>>

\* lines 321-327 with generate_summary_for_transcription: the cached output
\* path is returned; when a summary is wanted and the file exists, it is
\* loaded with json.load outside any try, then summarized inside one
UseCached ==
    /\ main_pc = "hit"
    /\ IF generate_summary /\ old_transcript # "missing"
       THEN /\ events' = Append(events, "summarize")
            /\ IF old_transcript = "json"
               THEN /\ summary' \in SummaryOutcomes
                    /\ main_returned' = OutputPathOf(cached_result)
                    /\ main_pc' = "returned"
               ELSE /\ summary' = [state |-> "load_raised", payload |-> None]
                    /\ main_pc' = "raised"
                    /\ UNCHANGED main_returned
       ELSE /\ main_returned' = OutputPathOf(cached_result)
            /\ main_pc' = "returned"
            /\ UNCHANGED <<events, summary>>
    /\ UNCHANGED <<request, generate_summary, old_transcript, checked_entry, cached_result>>
    /\ UNCHANGED <<pipelineVars, splitVars, fallbackVars, cacheVars, laterVars>>

\* lines 329-371: the transcriber returns a result or raises
Transcribe ==
    /\ main_pc = "transcribe"
    /\ \E completes \in BOOLEAN :
          main_pc' = IF completes THEN "save_transcription" ELSE "raised"
    /\ events' = Append(events, "transcribe")
    /\ UNCHANGED <<request, generate_summary, old_transcript, checked_entry,
                   cached_result, summary, main_returned>>
    /\ UNCHANGED <<pipelineVars, splitVars, fallbackVars, cacheVars, laterVars>>

\* line 374: the transcript is written and its path is the output path
SaveTranscription ==
    /\ main_pc = "save_transcription"
    /\ events' = Append(events, "save_transcription")
    /\ main_pc' = "save_cache"
    /\ UNCHANGED <<request, generate_summary, old_transcript, checked_entry,
                   cached_result, summary, main_returned>>
    /\ UNCHANGED <<pipelineVars, splitVars, fallbackVars, cacheVars, laterVars>>

\* lines 377-380: the result is cached under the input's hash
SaveCacheMain ==
    /\ main_pc = "save_cache"
    /\ \E can_open \in BOOLEAN :
          LET r == save_cache(cache_files, MainKey, NewData, cache_enabled,
                              time_now, can_open)
          IN /\ cache_files' = r.files
             /\ last_call' = [op |-> "save", key |-> MainKey, data |-> NewData,
                              returned |-> None, printed |-> r.printed]
    /\ events' = Append(events, "save_cache")
    /\ main_pc' = IF generate_summary THEN "summarize" ELSE "return"
    /\ UNCHANGED <<cache_enabled, cache_ttl, time_now>>
    /\ UNCHANGED <<request, generate_summary, old_transcript, checked_entry,
                   cached_result, summary, main_returned>>
    /\ UNCHANGED <<pipelineVars, splitVars, fallbackVars, laterVars>>

\* lines 383-414: the summary, everything inside "try ... except Exception"
Summarize ==
    /\ main_pc = "summarize"
    /\ summary' \in SummaryOutcomes
    /\ events' = Append(events, "summarize")
    /\ main_pc' = "return"
    /\ UNCHANGED <<request, generate_summary, old_transcript, checked_entry,
                   cached_result, main_returned>>
    /\ UNCHANGED <<pipelineVars, splitVars, fallbackVars, cacheVars, laterVars>>

\* line 416: return output_path
Return ==
    /\ main_pc = "return"
    /\ main_returned' = OutputPathOf(NewData)
    /\ main_pc' = "returned"
    /\ UNCHANGED <<request, generate_summary, old_transcript, checked_entry,
                   cached_result, events, summary>>
    /\ UNCHANGED <<pipelineVars, splitVars, fallbackVars, cacheVars, laterVars>>

NextMain ==
    \/ Validate
    \/ CheckCacheMain
    \/ UseCached
    \/ Transcribe
    \/ SaveTranscription
    \/ SaveCacheMain
    \/ Summarize
    \/ Return

InitMain == PipelineIdle /\ SplitIdle /\ FallbackIdle /\ MainInit /\ LaterIdle

SpecMain == InitMain /\ [][NextMain]_vars

(* -------------------------- _seconds_to_time -------------------------- *)

\* the ten digit characters
Digits == <<"0", "1", "2", "3", "4", "5", "6", "7", "8", "9">>

\* str(n) of a non-negative integer
RECURSIVE Decimal(_)
Decimal(n) ==
    IF n < 10 THEN <<Digits[n + 1]>>
    ELSE Decimal(n \div 10) \o <<Digits[(n % 10) + 1]>>

\* a format field that is not zero-padded, "{n:d}"
ZeroPadNone(n, width) == Decimal(n)

\* a zero-padded format field, "{n:0<width>d}"
ZeroPad(n, width) ==
    LET digits == Decimal(n)
    IN  [k \in 1 .. Max(0, width - Len(digits)) |-> "0"] \o digits

\* the field separator before the milliseconds: SRT "," and WebVTT "."
Separator(vtt) == IF vtt THEN "." ELSE ","

MsPerSecond == 1000

SecondsPerMinute == 60

SecondsPerHour == 3600

\* _seconds_to_time(seconds, vtt=False), seconds given in milliseconds
seconds_to_time(seconds_ms, vtt) ==
    LET whole   == seconds_ms \div MsPerSecond
        hours   == whole \div SecondsPerHour
        minutes == (whole % SecondsPerHour) \div SecondsPerMinute
        secs    == whole % SecondsPerMinute
        millis  == seconds_ms % MsPerSecond
    IN  ZeroPad(hours, 2) \o <<":">> \o ZeroPad(minutes, 2) \o <<":">>
        \o ZeroPad(secs, 2) \o <<Separator(vtt)>> \o ZeroPad(millis, 3)

\* the timestamps formatted: every hour up to MaxHours with the first, second
\* and last minute, second and the milliseconds 0, 500 and 999
TimeInputs ==
    {((h * SecondsPerHour + m * SecondsPerMinute + sec) * MsPerSecond) + ms :
        h \in 0 .. MaxHours, m \in {0, 1, 59}, sec \in {0, 1, 59},
        ms \in {0, 500, 999}}

TimeInit ==
    /\ st_pc = "call"
    /\ st_seconds \in TimeInputs
    /\ st_vtt \in BOOLEAN
    /\ st_text = <<>>

FormatTime ==
    /\ st_pc = "call"
    /\ st_text' = seconds_to_time(st_seconds, st_vtt)
    /\ st_pc' = "returned"
    /\ UNCHANGED <<st_seconds, st_vtt>>
    /\ UNCHANGED <<coreVars, normVars, postVars, cleanVars, filesVars>>

NextTime == FormatTime

InitTime ==
    CoreIdle /\ TimeInit /\ NormIdle /\ PostIdle /\ CleanIdle /\ FilesIdle

SpecTime == InitTime /\ [][NextTime]_vars

(* ------------------------- _remove_repetitions ------------------------ *)

Letters ==
    <<"a", "b", "c", "d", "e", "f", "g", "h", "i", "j", "k", "l", "m",
      "n", "o", "p", "q", "r", "s", "t", "u", "v", "w", "x", "y", "z">>

CapitalLetters ==
    <<"A", "B", "C", "D", "E", "F", "G", "H", "I", "J", "K", "L", "M",
      "N", "O", "P", "Q", "R", "S", "T", "U", "V", "W", "X", "Y", "Z">>

\* the characters the pattern \w matches
WordChars ==
    {Letters[k] : k \in 1 .. 26} \cup {CapitalLetters[k] : k \in 1 .. 26}
    \cup {Digits[d] : d \in 1 .. 10} \cup {"_"}

IsWordChar(c) == c \in WordChars

IsSpace(c) == c = " "

IsPeriod(c) == c = "."

\* the class of a character for the three patterns
CharClass(c) ==
    CASE IsWordChar(c) -> "word"
      [] IsSpace(c) -> "space"
      [] IsPeriod(c) -> "period"
      [] OTHER -> "other"

\* the number of characters of one class from position p on
RECURSIVE RunLength(_, _, _)
RunLength(text, p, class) ==
    IF p <= Len(text) /\ CharClass(text[p]) = class
    THEN 1 + RunLength(text, p + 1, class)
    ELSE 0

\* re.sub(r'\s+', ' ', text)
RECURSIVE CollapseSpaces(_)
CollapseSpaces(text) ==
    IF text = <<>> THEN <<>>
    ELSE IF IsSpace(Head(text))
         THEN <<" ">> \o CollapseSpaces(SubSeq(text, 1 + RunLength(text, 1, "space"),
                                                Len(text)))
         ELSE <<Head(text)>> \o CollapseSpaces(Tail(text))

\* the number of times (\s+\1) matches in a row from position q on
RECURSIVE Repeats(_, _, _)
Repeats(text, q, word) ==
    LET spaces == RunLength(text, q, "space")
        from   == q + spaces
        to     == from + Len(word) - 1
    IN  IF spaces >= 1 /\ to <= Len(text) /\ SubSeq(text, from, to) = word
        THEN 1 + Repeats(text, to + 1, word)
        ELSE 0

\* the position after the k-th match of (\s+\1) from position q on
RECURSIVE AfterRepeats(_, _, _, _)
AfterRepeats(text, q, word, k) ==
    IF k = 0 THEN q
    ELSE AfterRepeats(text, q + RunLength(text, q, "space") + Len(word), word, k - 1)

\* \b between positions p - 1 and p
WordBoundary(text, p) ==
    LET before == p > 1 /\ IsWordChar(text[p - 1])
        after  == p <= Len(text) /\ IsWordChar(text[p])
    IN  before # after

\* the smallest number of (\s+\1) repetitions the word pattern accepts
MinRepeats == 2

\* the pattern that already matches a word said twice
MatchWordRunTwice(text, p) ==
    IF ~(WordBoundary(text, p) /\ p <= Len(text) /\ IsWordChar(text[p])) THEN 0
    ELSE LET word == SubSeq(text, p, p + RunLength(text, p, "word") - 1)
             q    == p + Len(word)
             most == Repeats(text, q, word)
             k    == IF WordBoundary(text, AfterRepeats(text, q, word, most))
                     THEN most ELSE most - 1
         IN  IF k >= 1 THEN AfterRepeats(text, q, word, k) - p ELSE 0

\* the length of the match of \b(\w+)(\s+\1){2,}\b at position p, 0 for
\* none: the group takes the whole word (a shorter one is followed by a
\* word character, where \s+ fails), the repetition is greedy and gives
\* one repetition back when no \b follows the last one
MatchWordRun(text, p) ==
    IF ~(WordBoundary(text, p) /\ p <= Len(text) /\ IsWordChar(text[p])) THEN 0
    ELSE LET word == SubSeq(text, p, p + RunLength(text, p, "word") - 1)
             q    == p + Len(word)
             most == Repeats(text, q, word)
             k    == IF WordBoundary(text, AfterRepeats(text, q, word, most))
                     THEN most ELSE most - 1
         IN  IF k >= MinRepeats THEN AfterRepeats(text, q, word, k) - p ELSE 0

\* re.sub(r'\b(\w+)(\s+\1){2,}\b', r'\1', text) from position p on
RECURSIVE CollapseWordsFrom(_, _)
CollapseWordsFrom(text, p) ==
    IF p > Len(text) THEN <<>>
    ELSE LET matched == MatchWordRun(text, p)
         IN  IF matched > 0
             THEN SubSeq(text, p, p + RunLength(text, p, "word") - 1)
                  \o CollapseWordsFrom(text, p + matched)
             ELSE <<text[p]>> \o CollapseWordsFrom(text, p + 1)

\* the shortest run of periods that is replaced, and what replaces it
LongPeriodRun == 4

Ellipsis == <<".", ".", ".">>

\* re.sub(r'\.{4,}', '...', text)
RECURSIVE CollapsePeriods(_)
CollapsePeriods(text) ==
    IF text = <<>> THEN <<>>
    ELSE LET run == RunLength(text, 1, "period")
         IN  IF run >= LongPeriodRun
             THEN Ellipsis \o CollapsePeriods(SubSeq(text, run + 1, Len(text)))
             ELSE IF run >= 1
                  THEN SubSeq(text, 1, run)
                       \o CollapsePeriods(SubSeq(text, run + 1, Len(text)))
                  ELSE <<Head(text)>> \o CollapsePeriods(Tail(text))

\* _remove_repetitions(text)
remove_repetitions(text) ==
    Strip(CollapsePeriods(CollapseWordsFrom(CollapseSpaces(text), 1)))

\* the characters of the texts normalised: two letters, the space, the period
NormAlphabet == {"a", "b", " ", "."}

\* the texts of at most max_len characters
NormTexts(max_len) == UNION {[1 .. n -> NormAlphabet] : n \in 0 .. max_len}

NormInit ==
    /\ rr_pc = "call"
    /\ rr_text \in NormTexts(MaxTextLen)
    /\ rr_once = <<>>
    /\ rr_twice = <<>>

\* _remove_repetitions(text) returns
Normalize ==
    /\ rr_pc = "call"
    /\ rr_once' = remove_repetitions(rr_text)
    /\ rr_pc' = "returned"
    /\ UNCHANGED <<rr_text, rr_twice>>
    /\ UNCHANGED <<coreVars, timeVars, postVars, cleanVars, filesVars>>

\* _remove_repetitions is called on the text it returned
NormalizeAgain ==
    /\ rr_pc = "returned"
    /\ rr_twice' = remove_repetitions(rr_once)
    /\ rr_pc' = "returned_again"
    /\ UNCHANGED <<rr_text, rr_once>>
    /\ UNCHANGED <<coreVars, timeVars, postVars, cleanVars, filesVars>>

NextNorm == Normalize \/ NormalizeAgain

InitNorm ==
    CoreIdle /\ TimeIdle /\ NormInit /\ PostIdle /\ CleanIdle /\ FilesIdle

SpecNorm == InitNorm /\ [][NextNorm]_vars

(* --------------------- _postprocess_transcription --------------------- *)

\* a quotient num / den that is kept exact
Ratio(num, den) == [num |-> num, den |-> den]

RatioLess(a, b) == a.num * b.den < b.num * a.den

\* sum(values) of a list of quotients
RECURSIVE RatioSum(_)
RatioSum(values) ==
    IF values = <<>> THEN Ratio(0, 1)
    ELSE LET rest == RatioSum(Tail(values))
             v == Head(values)
         IN  Ratio(v.num * rest.den + rest.num * v.den, v.den * rest.den)

\* sum(values) / len(values)
Mean(values) ==
    LET total == RatioSum(values) IN Ratio(total.num, total.den * Len(values))

\* the default of w.get("probability", 1.0) and s.get("avg_confidence", 1.0),
\* in percent
FullConfidence == 100

\* a segment that has no "avg_confidence" key
NoConfidence == Ratio(Absent, 1)

\* text[0].upper() when text[0].islower()
Capitalize(text) ==
    IF text # <<>> /\ \E k \in 1 .. 26 : Letters[k] = text[1]
    THEN <<CapitalLetters[CHOOSE k \in 1 .. 26 : Letters[k] = text[1]]>> \o Tail(text)
    ELSE text

SentenceEnds == {".", "!", "?"}

\* _clean_segment_text(text)
clean_segment_text(text) ==
    LET joined == Capitalize(Join(<<" ">>, Split(text)))
    IN  IF joined # <<>> /\ Last(joined) \notin SentenceEnds
        THEN Append(joined, ".")
        ELSE joined

\* the shortest trimmed segment text that is kept
MinSegmentChars == 3

\* the test of line 331 made on the cleaned text instead of the raw one
TooShortAfterCleaning(text) == Len(clean_segment_text(text)) < MinSegmentChars

\* line 331: len(segment["text"].strip()) < 3
TooShort(text) == Len(Strip(text)) < MinSegmentChars

\* lines 338-340: the mean of the words' probabilities
AvgConfidence(words) ==
    LET confidences ==
            [k \in 1 .. Len(words) |->
                Ratio(IF words[k].probability = Absent THEN FullConfidence
                      ELSE words[k].probability, 1)]
    IN  IF confidences # <<>> THEN Mean(confidences) ELSE Ratio(FullConfidence, 1)

\* lines 334-342: one kept segment
CleanSegment(segment) ==
    [segment EXCEPT
        !.text = clean_segment_text(@),
        !.avg_confidence =
            IF segment.has_words THEN AvgConfidence(segment.words) ELSE @]

\* lines 328-344: the segments that are kept, cleaned
RECURSIVE CleanedSegments(_)
CleanedSegments(segments) ==
    IF segments = <<>> THEN <<>>
    ELSE IF TooShort(Head(segments).text)
         THEN CleanedSegments(Tail(segments))
         ELSE <<CleanSegment(Head(segments))>> \o CleanedSegments(Tail(segments))

\* s.get("avg_confidence", 1.0)
ConfidenceOf(segment) ==
    IF segment.avg_confidence = NoConfidence
    THEN Ratio(FullConfidence, 1)
    ELSE segment.avg_confidence

\* sum(s["end"] - s["start"] for s in segments)
RECURSIVE SpeechDuration(_)
SpeechDuration(segments) ==
    IF segments = <<>> THEN 0
    ELSE Head(segments).end - Head(segments).start + SpeechDuration(Tail(segments))

\* the count that takes a confidence of exactly 0.8 for low
IsLowInclusive(confidence) == ~RatioLess(Ratio(LowConfidence, 1), confidence)

\* line 407: c < 0.8
IsLow(confidence) == RatioLess(confidence, Ratio(LowConfidence, 1))

\* lines 410-413: 1 - speech_duration / total_duration
SilenceRatio(segments, duration) ==
    LET speech_duration == SpeechDuration(segments)
    IN  IF duration > 0
        THEN Ratio(duration - speech_duration, duration)
        ELSE Ratio(0, 1)

\* _calculate_quality_metrics(result)
calculate_quality_metrics(res) ==
    LET segments == res.segments
        confidences == [k \in 1 .. Len(segments) |-> ConfidenceOf(segments[k])]
    IN  [total_segments |-> Len(segments),
         total_words |-> Len(Split(res.text)),
         avg_segment_confidence |->
            IF segments # <<>> THEN Mean(confidences) ELSE Ratio(0, 1),
         low_confidence_segments |->
            IF segments # <<>>
            THEN Cardinality({k \in 1 .. Len(confidences) : IsLow(confidences[k])})
            ELSE 0,
         silence_ratio |->
            IF segments # <<>>
            THEN SilenceRatio(segments, DurationOf(res.duration))
            ELSE Ratio(0, 1)]

\* a result that has no "quality_metrics" key
NoMetrics ==
    [total_segments |-> Absent, total_words |-> Absent,
     avg_segment_confidence |-> Ratio(0, 1), low_confidence_segments |-> Absent,
     silence_ratio |-> Ratio(0, 1)]

\* _postprocess_transcription(result)
postprocess_transcription(res) ==
    LET cleaned ==
            [res EXCEPT !.text = remove_repetitions(@),
                           !.segments = CleanedSegments(@)]
    IN  [cleaned EXCEPT !.quality_metrics = calculate_quality_metrics(cleaned)]

\* segment texts with 2 and with 3 characters once trimmed
TOk == <<"o", "k">>

TOkPadded == <<" ", "o", "k", " ">>

TOkPeriod == <<"o", "k", ".">>

TOSpaceK == <<" ", "o", " ", "k">>

\* the text and the word probabilities (percent, Absent for a word without
\* the key) of the segments postprocessed; has_words tells whether the
\* segment has a "words" key
SegmentKinds ==
    {[text |-> TOk, has_words |-> FALSE, probabilities |-> <<>>],
     [text |-> TOkPadded, has_words |-> TRUE, probabilities |-> <<70>>],
     [text |-> TOkPeriod, has_words |-> FALSE, probabilities |-> <<>>],
     [text |-> TOkPeriod, has_words |-> TRUE, probabilities |-> <<>>],
     [text |-> TOSpaceK, has_words |-> TRUE, probabilities |-> <<70, 90>>],
     [text |-> TOkPeriod, has_words |-> TRUE, probabilities |-> <<70, 80>>],
     [text |-> TOkPeriod, has_words |-> TRUE, probabilities |-> <<Absent>>],
     [text |-> TOSpaceK, has_words |-> TRUE, probabilities |-> <<50>>]}

\* the silence before a segment; every segment lasts one tick
Gaps == {0, 1}

\* a recognised segment of one kind from start to end, numbered id
MkSegment(kind, id, start, end) ==
    [id |-> id, start |-> start, end |-> end, text |-> kind.text,
     has_words |-> kind.has_words,
     words |-> [k \in 1 .. Len(kind.probabilities) |->
                   [start |-> start, end |-> end,
                    probability |-> kind.probabilities[k]]],
     avg_confidence |-> NoConfidence]

\* the start of segment k when each segment comes after the given silence
RECURSIVE StartOf(_, _)
StartOf(gaps, k) ==
    IF k = 1 THEN gaps[1] ELSE StartOf(gaps, k - 1) + 1 + gaps[k]

\* the segment lists of up to max_segs segments, numbered from 0
SegmentLists(max_segs) ==
    UNION {{[k \in 1 .. n |->
                MkSegment(kinds[k], k - 1, StartOf(gaps, k), StartOf(gaps, k) + 1)] :
               kinds \in [1 .. n -> SegmentKinds],
               gaps \in [1 .. n -> Gaps]} : n \in 0 .. max_segs}

\* what _transcribe_single returns for these segments
SingleResult(segments) ==
    [text |-> ConcatTexts([k \in 1 .. Len(segments) |-> segments[k].text]),
     segments |-> segments, duration |-> Absent, method |-> "single",
     num_chunks |-> Absent, quality_metrics |-> NoMetrics]

\* what _transcribe_long_audio returns when the chunks gave these segments
ChunksResult(segments) ==
    [text |-> Join(<<" ">>, <<Strip(ConcatTexts([k \in 1 .. Len(segments) |->
                                                   segments[k].text]))>>),
     segments |-> segments,
     duration |-> IF segments # <<>> THEN Last(segments).end ELSE 0,
     method |-> "chunks", num_chunks |-> 2, quality_metrics |-> NoMetrics]

\* the results handed to _postprocess_transcription, each with the length of
\* the audio: a whole file may go on for a while after its last segment
PostInputs(max_segs) ==
    UNION {{[raw |-> SingleResult(segs), audio |-> a] :
               a \in {d \in {1, 2, 2 * max_segs, 2 * max_segs + 1} :
                         \A k \in 1 .. Len(segs) : segs[k].end <= d}} :
           segs \in SegmentLists(max_segs)}
    \cup {[raw |-> ChunksResult(segs), audio |-> ChunksResult(segs).duration] :
        segs \in SegmentLists(max_segs)}

PostInit ==
    /\ pp_pc = "call"
    /\ \E input \in PostInputs(MaxPostSegs) :
          /\ pp_raw = input.raw
          /\ pp_audio = input.audio
    /\ pp_result = NoResult

\* line 151: result = self._postprocess_transcription(result)
Postprocess ==
    /\ pp_pc = "call"
    /\ pp_result' = postprocess_transcription(pp_raw)
    /\ pp_pc' = "returned"
    /\ UNCHANGED <<pp_raw, pp_audio>>
    /\ UNCHANGED <<coreVars, timeVars, normVars, cleanVars, filesVars>>

NextPost == Postprocess

InitPost ==
    CoreIdle /\ TimeIdle /\ NormIdle /\ PostInit /\ CleanIdle /\ FilesIdle

SpecPost == InitPost /\ [][NextPost]_vars

(* --------------------------- clean_old_files -------------------------- *)

\* a directory entry: its directory, its name (whether it starts with
\* ".cache_" and its suffix), whether it is a regular file, and whether its
\* modification time is before the cutoff date
Entry(dir, cache_prefix, suffix, is_file, old) ==
    [dir |-> dir, cache_prefix |-> cache_prefix, suffix |-> suffix,
     is_file |-> is_file, old |-> old]

\* the entries the three directories may hold: uploads and a subdirectory
\* of uploads, transcripts as .json and as .txt, the cache files
\* .cache_<operation>_<hash>.json, and temporary .wav files
CleanEntries ==
    {Entry("uploads", FALSE, ".mp3", TRUE, old) : old \in BOOLEAN}
    \cup {Entry("uploads", FALSE, "", FALSE, TRUE)}
    \cup {Entry("transcripts", FALSE, ".json", TRUE, old) : old \in BOOLEAN}
    \cup {Entry("transcripts", FALSE, ".txt", TRUE, TRUE)}
    \cup {Entry("transcripts", TRUE, ".json", TRUE, old) : old \in BOOLEAN}
    \cup {Entry("temp", FALSE, ".wav", TRUE, old) : old \in BOOLEAN}

\* Path.glob(pattern): pathlib matches names with a leading dot as well
Glob(pattern, entry) ==
    CASE pattern = "*" -> TRUE
      [] pattern = "*.json" -> entry.suffix = ".json"
      [] pattern = ".cache_*" -> entry.cache_prefix

\* one loop of clean_old_files over dir.glob(pattern): the files it counts
Counted(files, dir, pattern, only_old) ==
    {f \in files : /\ f.dir = dir
                   /\ Glob(pattern, f)
                   /\ f.is_file
                   /\ (only_old => f.old)}

\* FileHandler.clean_old_files(days, dry_run): the files left and
\* removed_count; the four loops run one after the other
clean_old_files(files, dry_run) ==
    LET Left(before, counted) == IF dry_run THEN before ELSE before \ counted
        uploads     == Counted(files, "uploads", "*", TRUE)
        files1      == Left(files, uploads)
        transcripts == Counted(files1, "transcripts", "*.json", TRUE)
        files2      == Left(files1, transcripts)
        cache       == Counted(files2, "transcripts", ".cache_*", TRUE)
        files3      == Left(files2, cache)
        temp        == Counted(files3, "temp", "*", FALSE)
        files4      == Left(files3, temp)
    IN  [files |-> files4,
         removed_count |->
            [uploads |-> Cardinality(uploads),
             transcripts |-> Cardinality(transcripts),
             temp |-> Cardinality(temp),
             cache |-> Cardinality(cache)]]

CleanInit ==
    /\ co_pc = "start"
    /\ co_start \in SUBSET CleanEntries
    /\ co_files = co_start
    /\ co_simulated = NoneRemoved
    /\ co_removed = NoneRemoved

\* main.py 266-267: removed = clean_old_files(days, dry_run=True)
Simulate ==
    /\ co_pc = "start"
    /\ LET r == clean_old_files(co_files, TRUE)
       IN  /\ co_files' = r.files
           /\ co_simulated' = r.removed_count
           /\ co_pc' = IF r.removed_count.uploads + r.removed_count.transcripts
                            + r.removed_count.temp + r.removed_count.cache > 0
                       THEN "confirm" ELSE "nothing_to_remove"
    /\ UNCHANGED <<co_start, co_removed>>
    /\ UNCHANGED <<coreVars, timeVars, normVars, postVars, filesVars>>

\* main.py 270-272: the removal is confirmed
ConfirmClean ==
    /\ co_pc = "confirm"
    /\ LET r == clean_old_files(co_files, FALSE)
       IN  /\ co_files' = r.files
           /\ co_removed' = r.removed_count
    /\ co_pc' = "cleaned"
    /\ UNCHANGED <<co_start, co_simulated>>
    /\ UNCHANGED <<coreVars, timeVars, normVars, postVars, filesVars>>

\* main.py 270: the removal is not confirmed
DeclineClean ==
    /\ co_pc = "confirm"
    /\ co_pc' = "declined"
    /\ UNCHANGED <<co_start, co_files, co_simulated, co_removed>>
    /\ UNCHANGED <<coreVars, timeVars, normVars, postVars, filesVars>>

NextClean == Simulate \/ ConfirmClean \/ DeclineClean

InitClean ==
    CoreIdle /\ TimeIdle /\ NormIdle /\ PostIdle /\ CleanInit /\ FilesIdle

SpecClean == InitClean /\ [][NextClean]_vars

(* -------------------- the files of transcribe_enhanced ----------------- *)

\* TEMP_DIR / f"{stem}_{tag}.wav"
TempPath(stem, tag) == MkPath("temp", stem \o tag, ".wav")

\* f"{i:03d}"
ThreeDigits(index) ==
    IF index < 10 THEN "00" \o ToString(index)
    ELSE IF index < 100 THEN "0" \o ToString(index)
    ELSE ToString(index)

\* TEMP_DIR / f"{audio_path.stem}_chunk_{i:03d}.wav" and
\* TEMP_DIR / f"{audio_path.stem}_segment_{i:03d}.wav"
ChunkPath(audio_path, chunk) ==
    TempPath(audio_path.stem, <<chunk.kind, ThreeDigits(chunk.index)>>)

\* _preprocess_audio, lines 173-175: a 16 kHz mono .wav is used as it is
HasIdealFormat(audio_path, conforming) ==
    conforming /\ audio_path.suffix = ".wav"

\* AudioProcessor.convert_to_wav: the path it returns, which is the one it
\* was given for a .wav of the right rate and channels, and the file
\* <stem>_converted.wav it exports otherwise
convert_to_wav(audio_path, conforming) ==
    IF audio_path.suffix = ".wav" /\ conforming
    THEN audio_path
    ELSE TempPath(audio_path.stem, <<"converted">>)

\* AudioProcessor.normalize_audio: the file <stem>_normalized.wav it exports
normalize_audio(audio_path) == TempPath(audio_path.stem, <<"normalized">>)

\* the test that takes every processed path for a copy
IsCopyAlways(processed_path, audio_path) == TRUE

\* "processed_path != audio_path": the processed path is a copy, not the
\* caller's file
IsCopy(processed_path, audio_path) == processed_path # audio_path

\* "if processed_path != audio_path and processed_path.exists():
\* processed_path.unlink()": the files it unlinks
UnlinkCopy(files, processed_path, audio_path) ==
    IF IsCopy(processed_path, audio_path) /\ processed_path \in files
    THEN {processed_path}
    ELSE {}

\* the names of the audio files handed over: plain ones and ones that look
\* like the copies the processor writes
InputStems ==
    {<<"x">>, <<"x", "converted">>, <<"x", "normalized">>,
     <<"x", "converted", "normalized">>}

\* the paths handed over: files of the uploads directory and files that
\* lie in TEMP_DIR themselves
InputPaths ==
    {MkPath(dir, stem, suffix) :
        dir \in {"uploads", "temp"}, stem \in InputStems,
        suffix \in {".wav", ".mp3"}}

\* files an earlier run may have left in TEMP_DIR
LeftoverFiles ==
    {MkPath("temp", <<"x", "converted">>, ".wav"),
     MkPath("temp", <<"x", "converted", "normalized">>, ".wav")}

\* transcribe_enhanced is called with the path of a file that exists
FilesInit ==
    /\ tf_pc = "start"
    /\ tf_audio_path \in InputPaths
    /\ tf_conforming \in BOOLEAN
    /\ tf_duration \in {LongAudioThreshold, LongAudioThreshold + 1}
    /\ \E leftover \in SUBSET LeftoverFiles :
          tf_files = {tf_audio_path} \cup leftover
    /\ tf_processed_path = NoPath
    /\ tf_chunks = <<>>
    /\ tf_created = {}
    /\ tf_unlinked = {}

\* transcribe_enhanced, line 113, and _preprocess_audio: an ideal input is
\* its own processed path; any other is converted, the result normalized
\* and the converted copy unlinked
TfPreprocess ==
    /\ tf_pc = "start"
    /\ IF HasIdealFormat(tf_audio_path, tf_conforming)
       THEN /\ tf_processed_path' = tf_audio_path
            /\ UNCHANGED <<tf_files, tf_created, tf_unlinked>>
       ELSE LET processed_path == convert_to_wav(tf_audio_path, tf_conforming)
                normalized_path == normalize_audio(processed_path)
                written == ({processed_path} \ {tf_audio_path})
                               \cup {normalized_path}
                gone == UnlinkCopy(tf_files \cup written, processed_path,
                                   tf_audio_path)
            IN  /\ tf_files' = (tf_files \cup written) \ gone
                /\ tf_created' = tf_created \cup written
                /\ tf_unlinked' = tf_unlinked \cup gone
                /\ tf_processed_path' = normalized_path
    /\ tf_pc' = "preprocessed"
    /\ UNCHANGED <<tf_audio_path, tf_conforming, tf_duration, tf_chunks>>
    /\ UNCHANGED <<coreVars, timeVars, normVars, postVars, cleanVars>>

\* transcribe_enhanced, lines 115-148: the language, the parameters and
\* the probe; the duration decides between the two paths
TfChoosePath ==
    /\ tf_pc = "preprocessed"
    /\ tf_pc' = IF UseChunks(tf_duration) THEN "split" ELSE "single"
    /\ UNCHANGED <<tf_audio_path, tf_conforming, tf_duration, tf_files,
                   tf_processed_path, tf_chunks, tf_created, tf_unlinked>>
    /\ UNCHANGED <<coreVars, timeVars, normVars, postVars, cleanVars>>

\* _transcribe_single on the processed path: it returns a result
TfSingle ==
    /\ tf_pc = "single"
    /\ tf_pc' = "postprocess"
    /\ UNCHANGED <<tf_audio_path, tf_conforming, tf_duration, tf_files,
                   tf_processed_path, tf_chunks, tf_created, tf_unlinked>>
    /\ UNCHANGED <<coreVars, timeVars, normVars, postVars, cleanVars>>

\* an exception leaves transcribe_enhanced: from the language detection or
\* the probe, from a recognition call, or from the postprocessing
TfRaise ==
    /\ tf_pc \in {"preprocessed", "single", "loop", "postprocess"}
    /\ tf_pc = "loop" => tf_chunks # <<>>
    /\ tf_pc' = "failed"
    /\ UNCHANGED <<tf_audio_path, tf_conforming, tf_duration, tf_files,
                   tf_processed_path, tf_chunks, tf_created, tf_unlinked>>
    /\ UNCHANGED <<coreVars, timeVars, normVars, postVars, cleanVars>>

\* _transcribe_long_audio, lines 246-259: the splitters export their files
\* next to each other in TEMP_DIR, named after the processed path
TfSplit ==
    /\ tf_pc = "split"
    /\ \E pieces \in SilenceOutcomes(tf_duration * 1000) :
          LET exported ==
                  {ChunkPath(tf_processed_path, f) :
                      f \in LongAudioFiles(tf_duration * 1000, pieces)}
              chunk_list == LongAudioChunks(tf_duration * 1000, pieces)
          IN  /\ tf_files' = tf_files \cup exported
              /\ tf_created' = tf_created \cup exported
              /\ tf_chunks' = [k \in 1..Len(chunk_list) |->
                                  ChunkPath(tf_processed_path, chunk_list[k])]
    /\ tf_pc' = "loop"
    /\ UNCHANGED <<tf_audio_path, tf_conforming, tf_duration,
                   tf_processed_path, tf_unlinked>>
    /\ UNCHANGED <<coreVars, timeVars, normVars, postVars, cleanVars>>

\* _transcribe_long_audio, lines 266-298: one turn of the loop whose
\* recognition call returns; line 298 unlinks the chunk, which raises
\* FileNotFoundError for a file that is not there
TfChunk ==
    /\ tf_pc = "loop"
    /\ tf_chunks # <<>>
    /\ IF Head(tf_chunks) \in tf_files
       THEN /\ tf_files' = tf_files \ {Head(tf_chunks)}
            /\ tf_unlinked' = tf_unlinked \cup {Head(tf_chunks)}
            /\ tf_chunks' = Tail(tf_chunks)
            /\ tf_pc' = "loop"
       ELSE /\ tf_pc' = "failed"
            /\ UNCHANGED <<tf_files, tf_unlinked, tf_chunks>>
    /\ UNCHANGED <<tf_audio_path, tf_conforming, tf_duration,
                   tf_processed_path, tf_created>>
    /\ UNCHANGED <<coreVars, timeVars, normVars, postVars, cleanVars>>

\* _transcribe_long_audio, lines 300-310: the loop is over and the
\* combined result is returned
TfLoopEnd ==
    /\ tf_pc = "loop"
    /\ tf_chunks = <<>>
    /\ tf_pc' = "postprocess"
    /\ UNCHANGED <<tf_audio_path, tf_conforming, tf_duration, tf_files,
                   tf_processed_path, tf_chunks, tf_created, tf_unlinked>>
    /\ UNCHANGED <<coreVars, timeVars, normVars, postVars, cleanVars>>

\* transcribe_enhanced, lines 151-157: the result is postprocessed, the
\* processed copy unlinked and the result returned
TfFinish ==
    /\ tf_pc = "postprocess"
    /\ LET gone == UnlinkCopy(tf_files, tf_processed_path, tf_audio_path)
       IN  /\ tf_files' = tf_files \ gone
           /\ tf_unlinked' = tf_unlinked \cup gone
    /\ tf_pc' = "done"
    /\ UNCHANGED <<tf_audio_path, tf_conforming, tf_duration,
                   tf_processed_path, tf_chunks, tf_created>>
    /\ UNCHANGED <<coreVars, timeVars, normVars, postVars, cleanVars>>

NextFiles ==
    \/ TfPreprocess
    \/ TfChoosePath
    \/ TfSingle
    \/ TfRaise
    \/ TfSplit
    \/ TfChunk
    \/ TfLoopEnd
    \/ TfFinish

InitFiles ==
    CoreIdle /\ TimeIdle /\ NormIdle /\ PostIdle /\ CleanIdle /\ FilesInit

SpecFiles == InitFiles /\ [][NextFiles]_vars

(* ------------------------------ properties ---------------------------- *)

RECURSIVE AllSegmentsOf(_)
\* the segments of a list of results, in chunk order
AllSegmentsOf(rs) ==
    IF rs = <<>> THEN <<>> ELSE Head(rs).segments \o AllSegmentsOf(Tail(rs))

StitchedReturned == pc = "returned" /\ pass = 1 /\ result.method = "chunks"

\* C1: the segments _transcribe_long_audio returns are ordered: each ends
\* no earlier than it starts, and each next one starts no earlier than the
\* previous one ends, also across chunk boundaries.
C1_StitchedSegmentsOrdered ==
    StitchedReturned =>
        /\ \A k \in 1..Len(result.segments) :
              result.segments[k].end >= result.segments[k].start
        /\ \A k \in 1..(Len(result.segments) - 1) :
              result.segments[k + 1].start >= result.segments[k].end

\* a returned transcript in which the second chunk's first segment would
\* start before the first chunk's last segment ends, were it not shifted
C1_Witness ==
    /\ StitchedReturned
    /\ Len(produced) >= 2
    /\ produced[1].segments # <<>>
    /\ produced[2].segments # <<>>
    /\ Last(produced[1].segments).end > produced[2].segments[1].start

\* C2: every stitched chunk's segments are the returned ones moved by the
\* end of the last segment accumulated from the earlier chunks (0 when
\* there is none), start and end alike, with ids raised by the number of
\* segments accumulated before the chunk.
C2_OffsetAndIds ==
    pass = 1 =>
        \A c \in 1..Len(results) :
            LET before == AllSegmentsOf(SubSeq(results, 1, c - 1))
                offset == IF before = <<>> THEN 0 ELSE Last(before).end
                raw == produced[c].segments
                now == results[c].segments
            IN /\ Len(now) = Len(raw)
               /\ \A k \in 1..Len(raw) :
                     /\ now[k].start = raw[k].start + offset
                     /\ now[k].end = raw[k].end + offset
                     /\ now[k].id = Len(before) + raw[k].id

\* a third chunk stitched with a non-zero offset onto two non-empty chunks
C2_Witness ==
    /\ pass = 1
    /\ Len(results) >= 3
    /\ results[1].segments # <<>>
    /\ results[2].segments # <<>>
    /\ results[3].segments # <<>>
    /\ results[3].segments[1].start > produced[3].segments[1].start
    /\ results[3].segments[1].id > produced[3].segments[1].id

\* C3: the returned duration is the end of the last returned segment, and
\* 0 when no segment is returned.
C3_DurationIsLastEnd ==
    StitchedReturned =>
        result.duration = IF result.segments = <<>> THEN 0
                          ELSE Last(result.segments).end

\* a returned transcript whose final chunk had no segment while an earlier
\* chunk had one that ends after 0
C3_Witness ==
    /\ StitchedReturned
    /\ Last(produced).segments = <<>>
    /\ result.segments # <<>>
    /\ result.duration > 0

\* the continuity hint written out: "..." and then the last HintWords
\* words of a text, separated by single spaces
HintOfWords(words) ==
    LET n == Len(words)
        m == Min(n, HintWords)
    IN <<".", ".", ".">> \o Join(<<" ">>, [k \in 1..m |-> words[n - m + k]])

\* C4 as stated: the prompt of every recognition call after the first is
\* the hint made of the last 10 words of the previous chunk's text.
C4_HintFromPreviousChunkText ==
    pc = "recognising" /\ pass = 1 /\ i > 0 =>
        Last(call_log).initial_prompt = HintOfWords(Split(full_text[i]))

\* C4 amended: the prompt of a recognition call after the first is the
\* hint made of the last 10 words of the last segment accumulated so far,
\* and the prompt of the call before when no segment has been accumulated;
\* it is in place when the call is made.
C4_HintFromLastSegment ==
    pc = "recognising" /\ pass = 1 /\ i > 0 =>
        /\ Last(call_log).chunk = i
        /\ Last(call_log).initial_prompt = initial_prompt
        /\ Last(call_log).initial_prompt =
              IF all_segments # <<>>
              THEN HintOfWords(Split(Last(all_segments).text))
              ELSE call_log[Len(call_log) - 1].initial_prompt

\* a call after the first whose last accumulated segment has more than
\* HintWords words
C4_Witness ==
    /\ pc = "recognising"
    /\ pass = 1
    /\ i > 0
    /\ all_segments # <<>>
    /\ Len(Split(Last(all_segments).text)) > HintWords

\* C5: the recognition calls are made one at a time in index order, and
\* while the call for chunk i is in flight or being stitched the results of
\* the chunks 0..i-1, and only those, have been appended.
C5_SequentialChunks ==
    /\ pc \in {"loop", "recognising", "stitch"} /\ pass = 1 =>
          /\ \A n \in 1..Len(call_log) : call_log[n].chunk = n - 1
          /\ Len(produced) = Len(results) + (IF pc = "stitch" THEN 1 ELSE 0)
    /\ pc \in {"recognising", "stitch"} /\ pass = 1 =>
          /\ Len(call_log) = i + 1
          /\ Len(full_text) = i
          /\ Len(results) = i
          /\ all_segments = AllSegmentsOf(results)
          /\ \A c \in 1..i : full_text[c] = Strip(produced[c].text)

\* the call for the third chunk in flight after two non-empty chunks
C5_Witness ==
    /\ pc = "recognising"
    /\ pass = 1
    /\ i = 2
    /\ Len(all_segments) >= 2

\* C6: once a recognition call has raised, the operation has failed: no
\* result is returned and the failed call is the last one made.
C6_ChunkFailureFails ==
    error.raised =>
        /\ pc = "failed"
        /\ result = NoResult
        /\ Last(call_log).chunk = error.chunk

\* the call for a later chunk raised after segments had been accumulated
C6_Witness ==
    /\ pc = "failed"
    /\ error.raised
    /\ error.chunk >= 1
    /\ all_segments # <<>>
    /\ Len(chunks) > error.chunk + 1

C8_RestitchSame ==
    pc = "returned" /\ pass = 2 =>
        /\ result.text = first_result.text
        /\ Len(result.segments) = Len(first_result.segments)
        /\ \A k \in 1..Len(result.segments) :
              /\ result.segments[k].start = first_result.segments[k].start
              /\ result.segments[k].end = first_result.segments[k].end

\* C9: the chunked path is taken exactly when the probed duration is above
\* LongAudioThreshold; otherwise, and when the duration is unknown, one
\* recognition call is made on the unsplit file and the method is "single".
C9_PathByDuration ==
    LET long == audio_info # Absent /\ audio_info > LongAudioThreshold
    IN /\ pc \in {"split", "loop", "recognising", "stitch"} => long
       /\ pc = "single" => ~long
       /\ pc = "returned" /\ pass = 1 =>
             IF long
             THEN result.method = "chunks"
             ELSE /\ result.method = "single"
                  /\ Len(call_log) = 1
                  /\ call_log[1].chunk = Absent
                  /\ silence_pieces = Absent
                  /\ chunks = <<>>

\* an input of exactly LongAudioThreshold seconds transcribed in one call
C9_Witness ==
    /\ pc = "returned"
    /\ audio_info = LongAudioThreshold
    /\ result.method = "single"

\* C10: whenever the silence splitter finds fewer than 2 pieces, the chunks
\* to transcribe are the fixed-duration chunks of the LongChunkDuration
\* window.
C10_FallbackToLongWindow ==
    pc \in {"loop", "recognising", "stitch"} /\ silence_pieces < 2 =>
        chunks = split_audio_by_duration(DurationOf(audio_info) * 1000,
                                         LongChunkDuration)

RECURSIVE SumMs(_)
\* the total length of a list of chunks
SumMs(chunk_paths) ==
    IF chunk_paths = <<>> THEN 0
    ELSE Head(chunk_paths).ms + SumMs(Tail(chunk_paths))

\* C11: split_audio_by_duration on an audio of D ms with a window of C ms,
\* C > 0, returns ceil(D / C) chunks; chunk k (from 0) is numbered k and
\* covers [k*C, min((k+1)*C, D)); every chunk is non-empty and at most C
\* long, each starts where the one before ends, and the lengths add up to D.
C11_DurationChunksPartition ==
    sd_pc = "returned" /\ sd_chunk_duration > 0 =>
        LET C == sd_chunk_duration * 1000
            D == sd_duration_ms
            n == Len(sd_chunk_paths)
        IN /\ n = (D + C - 1) \div C
           /\ \A k \in 0..(n - 1) :
                 LET c == sd_chunk_paths[k + 1]
                 IN /\ c.index = k
                    /\ c.start = k * C
                    /\ c.start + c.ms = Min((k + 1) * C, D)
                    /\ c.ms >= 1
                    /\ c.ms <= C
           /\ \A k \in 1..(n - 1) :
                 sd_chunk_paths[k + 1].start
                    = sd_chunk_paths[k].start + sd_chunk_paths[k].ms
           /\ SumMs(sd_chunk_paths) = D
           /\ FilesOf(sd_chunk_paths) \subseteq temp_files

\* an audio that is not a whole number of windows, split into three or
\* more chunks of which the last is shorter than the window
C11_Witness ==
    /\ sd_pc = "returned"
    /\ sd_chunk_duration > 0
    /\ Len(sd_chunk_paths) >= 3
    /\ sd_duration_ms % (sd_chunk_duration * 1000) # 0
    /\ Last(sd_chunk_paths).ms < sd_chunk_duration * 1000

\* C12: when _transcribe_long_audio has ended, by returning or by failing,
\* no file written by the splitters is left in TEMP_DIR.
C12_NoChunkFileRemains ==
    pc \in {"returned", "failed"} /\ "split" \in effects =>
        \A f \in temp_files : f.kind \notin {"chunk", "segment"}

\* the composite score as the specification writes it, in thousandths
CompositeScore(m) ==
    5 * m.avg_segment_confidence + 3 * (100 - m.silence_ratio)
    + 2 * (100 - (IF m.total_segments = 0 THEN 0
                  ELSE (100 * m.low_confidence_segments) \div m.total_segments))

\* the attempts that completed without raising
Completed == {k \in 1..Len(attempts) : ~attempts[k].raised}

Stops(k) == k \in Completed /\ CompositeScore(attempts[k].metrics) > GoodScore

C15_FailsIffAllRaised ==
    /\ fb_pc \in {"returned", "failed"} =>
          (fb_pc = "failed" <=> Completed = {})
    /\ attempts # <<>> /\ Last(attempts).raised /\ fb_pc = "loop" =>
          model_index = Len(attempts) + 1

\* a step is the call check_cache(key) with caching enabled
ChecksKey(key) ==
    cache_enabled /\ last_call'.op = "check" /\ last_call'.key = key

\* C16: with caching enabled, check_cache of a key without entry returns
\* None; of an entry whose age is at most the TTL it returns the stored
\* data and leaves the entry alone; of an older entry it returns None and
\* deletes the entry; no other entry changes, and only a save creates an
\* entry, so later checks of a deleted entry return None until a save.
C16_CacheFreshWithinTTL ==
    [][\A key \in CacheKeys :
          /\ ChecksKey(key) =>
                LET entry == cache_files[key]
                IN /\ \A other \in CacheKeys \ {key} :
                         cache_files'[other] = cache_files[other]
                   /\ ~entry.exists =>
                         /\ last_call'.returned = None
                         /\ ~cache_files'[key].exists
                   /\ entry.exists /\ time_now - entry.mtime > cache_ttl =>
                         /\ last_call'.returned = None
                         /\ ~cache_files'[key].exists
                   /\ entry.exists /\ time_now - entry.mtime <= cache_ttl =>
                         /\ cache_files'[key] = entry
                         /\ entry.text.json =>
                               last_call'.returned
                                  = [kind |-> "json", id |-> entry.text.id]
          /\ ~cache_files[key].exists /\ cache_files'[key].exists =>
                last_call'.op = "save" /\ last_call'.key = key
      ]_vars

\* an entry was returned at an age of exactly the TTL, the TTL not being 0
C16_WitnessAtTTL ==
    /\ cache_enabled
    /\ cache_ttl > 0
    /\ last_call.op = "check"
    /\ last_call.printed = "Usando cache"
    /\ last_call.returned # None
    /\ time_now - cache_files[last_call.key].mtime = cache_ttl

FoundUnreadable ==
    /\ cache_enabled
    /\ "check_cache" \in {events[n] : n \in 1..Len(events)}
    /\ checked_entry.exists
    /\ time_now - checked_entry.mtime <= cache_ttl
    /\ ~checked_entry.text.json

\* C18: when check_cache finds an entry within the TTL that cannot be
\* parsed, it returns None without raising, and transcribe_file_enhanced
\* goes on as on a miss: it transcribes, saves the transcript, and calls
\* save_cache, which overwrites the entry with the new result.
C18_UnreadableEntryIsMiss ==
    FoundUnreadable =>
        /\ cached_result = None
        /\ main_pc \notin {"hit", "exited"}
        /\ Len(events) = 2 =>
              main_pc = "transcribe" /\ last_call.printed = "Erro ao ler cache"
        /\ main_pc = "raised" => Last(events) = "transcribe"
        /\ main_pc \in {"summarize", "return", "returned"} =>
              /\ SubSeq(events, 1, 5)
                    = <<"validate", "check_cache", "transcribe",
                        "save_transcription", "save_cache">>
              /\ last_call.op = "save"
              /\ last_call.data = NewData
              /\ last_call.printed = "" =>
                    cache_files[MainKey]
                       = [exists |-> TRUE, text |-> JsonDump(NewData).text,
                          mtime |-> time_now]
        /\ main_pc = "returned" => main_returned = OutputPathOf(NewData)

\* a run that found an unreadable entry within the TTL has returned the new
\* output path, and the entry holds the new result
C18_Witness ==
    /\ FoundUnreadable
    /\ main_pc = "returned"
    /\ main_returned = "new"
    /\ cache_files[MainKey].text = JsonDump(NewData).text
    /\ cache_files[MainKey].mtime > checked_entry.mtime

\* C19: once summarization has started, transcribe_file_enhanced does not
\* raise: a failure is a payload with "error" and "summary", the transcript
\* and the cache entry have been written before, and the output path is
\* returned.
C19_SummaryNeverFailsTranscription ==
    summary.state # "none" =>
        /\ main_pc \in {"return", "returned"}
        /\ main_pc = "returned" => main_returned # ""
        /\ summary.payload # None /\ summary.payload.error # "" =>
              summary.payload.summary # ""
        /\ cached_result = None =>
              SubSeq(events, 3, 6)
                 = <<"transcribe", "save_transcription", "save_cache", "summarize">>

\* C20: transcribe_enhanced on a path that does not exist fails with
\* FileNotFoundError at once: nothing has been probed, converted, split or
\* recognised, no temporary file and no cache file has been written, and
\* no result is returned.
C20_MissingFileFailsFirst ==
    /\ ~input_exists /\ pc # "start" => file_error
    /\ file_error =>
          /\ ~input_exists
          /\ pc = "failed"
          /\ effects = {}
          /\ temp_files = {}
          /\ call_log = <<>>
          /\ chunks = <<>>
          /\ result = NoResult
          /\ \A key \in CacheKeys : ~cache_files[key].exists

\* the call on a missing path has failed
C20_Witness ==
    /\ ~input_exists
    /\ pc = "failed"
    /\ file_error
    /\ ~error.raised

\* the number a text of digit characters denotes
RECURSIVE DigitsValue(_)
DigitsValue(text) ==
    IF text = <<>> THEN 0
    ELSE DigitsValue(SubSeq(text, 1, Len(text) - 1)) * 10
         + (CHOOSE d \in 0 .. 9 : Digits[d + 1] = Last(text))

IsDigit(c) == \E d \in 1 .. 10 : Digits[d] = c

\* C21: _seconds_to_time formats a non-negative number of seconds as
\* HH:MM:SS and a 3-digit millisecond field, separated by a comma, or by a
\* period when vtt=True: the fields read back give the seconds, minutes and
\* seconds stay below 60, 0 gives "00:00:00,000", 61.5 gives "00:01:01,500"
\* ("00:01:01.500" for VTT) and 3661.5 gives "01:01:01,500".
C21_TimeFormat ==
    st_pc = "returned" =>
        LET t == st_text
            f(a, b) == DigitsValue(SubSeq(t, a, b))
        IN  /\ Len(t) = 12
            /\ \A k \in {1, 2, 4, 5, 7, 8, 10, 11, 12} : IsDigit(t[k])
            /\ t[3] = ":" /\ t[6] = ":"
            /\ t[9] = (IF st_vtt THEN "." ELSE ",")
            /\ f(4, 5) < 60 /\ f(7, 8) < 60
            /\ ((f(1, 2) * 60 + f(4, 5)) * 60 + f(7, 8)) * 1000 + f(10, 12)
                   = st_seconds
            /\ (st_seconds = 0 /\ ~st_vtt) =>
                   t = <<"0","0",":","0","0",":","0","0",",","0","0","0">>
            /\ (st_seconds = 0 /\ st_vtt) =>
                   t = <<"0","0",":","0","0",":","0","0",".","0","0","0">>
            /\ (st_seconds = 61500 /\ ~st_vtt) =>
                   t = <<"0","0",":","0","1",":","0","1",",","5","0","0">>
            /\ (st_seconds = 61500 /\ st_vtt) =>
                   t = <<"0","0",":","0","1",":","0","1",".","5","0","0">>
            /\ (st_seconds = 3661500 /\ ~st_vtt) =>
                   t = <<"0","1",":","0","1",":","0","1",",","5","0","0">>

\* 3661.5 s has been formatted for WebVTT
C21_Witness ==
    /\ st_pc = "returned"
    /\ st_seconds = 3661500
    /\ st_vtt
    /\ st_text = <<"0","1",":","0","1",":","0","1",".","5","0","0">>

\* a text cut into its maximal runs of word characters, of spaces, of
\* periods and of single other characters
RECURSIVE Tokens(_)
Tokens(text) ==
    IF text = <<>> THEN <<>>
    ELSE LET n == Max(1, RunLength(text, 1, CharClass(Head(text))))
         IN  <<SubSeq(text, 1, n)>> \o Tokens(SubSeq(text, n + 1, Len(text)))

IsWord(token) == IsWordChar(token[1])

\* the runs of one word said over and over with only spaces between, as
\* <<word, times>> pairs in text order
RECURSIVE WordRunsFrom(_, _, _)
WordRunsFrom(tokens, j, acc) ==
    IF j > Len(tokens) THEN acc
    ELSE IF ~IsWord(tokens[j]) THEN WordRunsFrom(tokens, j + 1, acc)
    ELSE IF /\ j > 2
            /\ IsSpace(tokens[j - 1][1])
            /\ tokens[j - 2] = tokens[j]
         THEN WordRunsFrom(tokens, j + 1,
                  [acc EXCEPT ![Len(acc)] = <<@[1], @[2] + 1>>])
         ELSE WordRunsFrom(tokens, j + 1, Append(acc, <<tokens[j], 1>>))

WordRuns(text) == WordRunsFrom(Tokens(text), 1, <<>>)

\* the lengths of the runs of periods, in text order
PeriodRuns(text) ==
    LET tokens == Tokens(text)
        periods == SelectSeq(tokens, LAMBDA t : IsPeriod(t[1]))
    IN  [k \in 1 .. Len(periods) |-> Len(periods[k])]

\* no leading, trailing or doubled space
SingleSpaced(text) ==
    /\ text = <<>> \/ (~IsSpace(text[1]) /\ ~IsSpace(text[Len(text)]))
    /\ \A k \in 1 .. (Len(text) - 1) : ~(IsSpace(text[k]) /\ IsSpace(text[k + 1]))

\* C23: _remove_repetitions turns every run of 3 or more occurrences of one
\* word into one occurrence and leaves a word said once or twice alone,
\* turns every run of 4 or more periods into three and leaves shorter runs
\* alone ("a a a b" gives "a b", "a....." gives "a..."), changes nothing
\* else of a single-spaced text, and changes nothing of its own output.
C23_RepetitionCollapse ==
    rr_pc \in {"returned", "returned_again"} =>
        LET before == WordRuns(rr_text)
            after  == WordRuns(rr_once)
            dots   == PeriodRuns(rr_text)
        IN  /\ after = [k \in 1 .. Len(before) |->
                           <<before[k][1],
                             IF before[k][2] >= 3 THEN 1 ELSE before[k][2]>>]
            /\ PeriodRuns(rr_once) = [k \in 1 .. Len(dots) |-> Min(dots[k], 3)]
            /\ SingleSpaced(rr_once)
            /\ ( /\ SingleSpaced(rr_text)
                 /\ \A k \in 1 .. Len(before) : before[k][2] < 3
                 /\ \A k \in 1 .. Len(dots) : dots[k] < 4 )
               => rr_once = rr_text
            /\ rr_text = <<"a", " ", "a", " ", "a", " ", "b">>
               => rr_once = <<"a", " ", "b">>
            /\ rr_text = <<"a", ".", ".", ".", ".", ".">>
               => rr_once = <<"a", ".", ".", ".">>
            /\ rr_pc = "returned_again" => rr_twice = rr_once

\* a word said three times before another word has been collapsed, and the
\* normalisation has run on its own output
C23_Witness ==
    /\ rr_pc = "returned_again"
    /\ rr_text = <<"a", " ", "a", " ", "a", " ", "b">>
    /\ rr_once = <<"a", " ", "b">>
    /\ rr_twice = rr_once

\* the number of characters of a text between its first and its last
\* character that is not a space
TrimmedLength(text) ==
    LET inked == {k \in 1 .. Len(text) : text[k] # " "}
    IN  IF inked = {} THEN 0
        ELSE (CHOOSE k \in inked : \A j \in inked : j <= k)
             - (CHOOSE k \in inked : \A j \in inked : k <= j) + 1

IdsOf(segments) == [k \in 1 .. Len(segments) |-> segments[k].id]

\* C22: post-processing drops a segment exactly when its raw text, trimmed,
\* has fewer than 3 characters ("ok" is dropped although its cleaned text
\* "Ok." has 3, "ok." is kept), and the kept segments stay in order.
C22_ShortSegmentsDropped ==
    pp_pc = "returned" =>
        /\ IdsOf(pp_result.segments)
              = IdsOf(SelectSeq(pp_raw.segments,
                                LAMBDA seg : TrimmedLength(seg.text) >= 3))
        /\ \A k \in 1 .. Len(pp_raw.segments) :
              LET seg == pp_raw.segments[k]
                  kept == \E j \in 1 .. Len(pp_result.segments) :
                              pp_result.segments[j].id = seg.id
              IN  /\ seg.text = TOk => ~kept
                  /\ seg.text = TOkPeriod => kept

\* "ok" came between two longer segments and only it was dropped
C22_Witness ==
    /\ pp_pc = "returned"
    /\ Len(pp_raw.segments) = 2
    /\ pp_raw.segments[1].text = TOk
    /\ pp_raw.segments[2].text = TOkPeriod
    /\ IdsOf(pp_result.segments) = <<1>>

\* the sum of the probabilities of a segment's words, in percent, a word
\* without the key counting as 1.0
RECURSIVE ProbabilitySum(_)
ProbabilitySum(words) ==
    IF words = <<>> THEN 0
    ELSE (IF Head(words).probability = Absent THEN 100
          ELSE Head(words).probability) + ProbabilitySum(Tail(words))

\* the confidence the metrics use for a kept segment
MetricConfidence(segment) ==
    IF segment.avg_confidence.num = Absent THEN Ratio(100, 1)
    ELSE segment.avg_confidence

RawSegment(id) == CHOOSE seg \in {pp_raw.segments[k] : k \in 1 .. Len(pp_raw.segments)} :
                      seg.id = id

\* C24: a kept segment's confidence is the mean of its words' confidences,
\* or 1.0 when it has no words field or an empty word list, and
\* low_confidence_segments counts exactly the kept segments whose confidence
\* is strictly below 0.8, so it never exceeds total_segments.
C24_ConfidenceMetrics ==
    pp_pc = "returned" =>
        LET kept == pp_result.segments
            metrics == pp_result.quality_metrics
        IN  /\ \A k \in 1 .. Len(kept) :
                  LET raw == RawSegment(kept[k].id)
                      c == MetricConfidence(kept[k])
                  IN  IF raw.has_words /\ raw.words # <<>>
                      THEN c.num * Len(raw.words) = ProbabilitySum(raw.words) * c.den
                      ELSE c.num = 100 * c.den
            /\ metrics.total_segments = Len(kept)
            /\ metrics.low_confidence_segments =
                  Cardinality({k \in 1 .. Len(kept) :
                      LET raw == RawSegment(kept[k].id)
                      IN  /\ raw.has_words
                          /\ raw.words # <<>>
                          /\ ProbabilitySum(raw.words) < 80 * Len(raw.words)})
            /\ metrics.low_confidence_segments <= metrics.total_segments

\* a segment whose words average exactly 0.8 and one whose word is at 0.5
\* were kept, and one segment was counted as low
C24_Witness ==
    /\ pp_pc = "returned"
    /\ Len(pp_result.segments) = 2
    /\ pp_result.segments[1].avg_confidence = Ratio(160, 2)
    /\ pp_result.segments[2].avg_confidence = Ratio(50, 1)
    /\ pp_result.quality_metrics.low_confidence_segments = 1

\* C25: the reported silence_ratio is the fraction of the total duration
\* that no kept segment covers, and lies between 0 and 1.
C25_SilenceRatioIsUncoveredFraction ==
    (pp_pc = "returned" /\ pp_audio > 0) =>
        LET ratio == pp_result.quality_metrics.silence_ratio
            covered == SpeechDuration(pp_result.segments)
        IN  /\ ratio.num * pp_audio = (pp_audio - covered) * ratio.den
            /\ 0 <= ratio.num
            /\ ratio.num <= ratio.den

\* the position of an event in the history of transcribe_file_enhanced,
\* 0 when it has not happened
EventIndex(e) ==
    IF \E k \in 1 .. Len(events) : events[k] = e
    THEN CHOOSE k \in 1 .. Len(events) : events[k] = e
    ELSE 0

\* C26: the cache is consulted before any transcriber is constructed; the
\* lookup hits exactly when the cache is enabled and the entry under the
\* file's hash exists, is within TTL and is readable, whatever model, mode
\* and format are requested and whether or not the cached output file still
\* exists; and on a hit the cached output_path is returned with no
\* recognition call and no cache write.
C26_CacheHitShortCircuits ==
    /\ EventIndex("transcribe") > 0
          => (0 < EventIndex("check_cache")
              /\ EventIndex("check_cache") < EventIndex("transcribe"))
    /\ EventIndex("check_cache") > 0 =>
          (Truthy(cached_result) <=>
              /\ cache_enabled
              /\ checked_entry.exists
              /\ time_now - checked_entry.mtime <= cache_ttl
              /\ checked_entry.text.json)
    /\ (Truthy(cached_result) /\ main_pc # "hit") =>
          /\ main_pc = "returned"
          /\ main_returned = OutputPathOf(OldData)
          /\ EventIndex("transcribe") = 0
          /\ EventIndex("save_cache") = 0
          /\ cache_files[MainKey] = checked_entry

\* C27: after stitching, every word of a returned segment starts and ends
\* within the segment's [start, end] on the global timeline.
C27_WordsWithinSegment ==
    StitchedReturned =>
        \A k \in 1 .. Len(result.segments) :
            \A w \in 1 .. Len(result.segments[k].words) :
                /\ result.segments[k].start <= result.segments[k].words[w].start
                /\ result.segments[k].words[w].end <= result.segments[k].end

\* every recognition call numbered its segments 0..n-1
NumberedFromZero ==
    \A c \in 1 .. Len(produced) :
        \A k \in 1 .. Len(produced[c].segments) :
            produced[c].segments[k].id = k - 1

\* C28: when every chunk's result numbers its segments 0..n-1, the segments
\* _transcribe_long_audio returns carry their list positions 0, 1, 2, ... as
\* ids, also when some chunk returned no segment.
C28_IdsArePositions ==
    (StitchedReturned /\ NumberedFromZero) =>
        \A k \in 1 .. Len(result.segments) : result.segments[k].id = k - 1

\* three chunks, the first and the second without segments or the second
\* alone, and at least two segments returned after an empty chunk
C28_Witness ==
    /\ StitchedReturned
    /\ NumberedFromZero
    /\ Len(produced) = 3
    /\ produced[1].segments # <<>>
    /\ produced[2].segments = <<>>
    /\ Len(produced[3].segments) = 2
    /\ Last(result.segments).id = Len(result.segments) - 1
    /\ Last(result.segments).id > Last(produced[3].segments).id

\* what a file is: an upload, a transcript, a cache file or a temporary file
Category(entry) ==
    CASE entry.dir = "uploads" -> "uploads"
      [] entry.dir = "temp" -> "temp"
      [] entry.dir = "transcripts" /\ entry.cache_prefix -> "cache"
      [] OTHER -> "transcripts"

\* C29: clean_old_files(days, dry_run=True) removes no file, and the counts
\* it returns are, category by category, the numbers of uploads,
\* transcripts, cache files and temporary files that
\* clean_old_files(days, dry_run=False) deletes from the same directories.
C29_DryRunPredictsRemoval ==
    /\ co_pc \in {"confirm", "nothing_to_remove", "declined"} => co_files = co_start
    /\ co_pc = "cleaned" =>
          \A category \in {"uploads", "transcripts", "cache", "temp"} :
              co_simulated[category]
                  = Cardinality({f \in co_start \ co_files : Category(f) = category})

\* C30: transcribe_enhanced never unlinks the file it was called with: that
\* file exists throughout, every file the call unlinks is one the call has
\* written itself (the converted copy, the normalized copy, a chunk file),
\* and once the call has returned a processed copy is no longer there.
C30_InputFileKept ==
    tf_pc # "idle" =>
        /\ tf_audio_path \in tf_files
        /\ tf_audio_path \notin tf_unlinked
        /\ tf_unlinked \subseteq tf_created
        /\ \A path \in tf_unlinked :
              /\ path.dir = "temp"
              /\ \/ path = convert_to_wav(tf_audio_path, tf_conforming)
                 \/ path = tf_processed_path
                 \/ \E index \in 0..(tf_duration \div DefaultChunkDuration) :
                       \E kind \in {"chunk", "segment"} :
                          path = ChunkPath(tf_processed_path,
                                           [kind |-> kind, index |-> index])
        /\ tf_pc = "done" /\ tf_processed_path # tf_audio_path =>
              tf_processed_path \notin tf_files

\* a call that has returned for a long audio lying in TEMP_DIR under the
\* name of a converted copy, after unlinking its converted copy, its
\* normalized copy and its chunk files
C30_Witness ==
    /\ tf_pc = "done"
    /\ tf_audio_path.dir = "temp"
    /\ tf_audio_path.stem = <<"x", "converted">>
    /\ ~HasIdealFormat(tf_audio_path, tf_conforming)
    /\ convert_to_wav(tf_audio_path, tf_conforming) \in tf_unlinked
    /\ tf_processed_path \in tf_unlinked
    /\ Cardinality(tf_unlinked) >= 4

====
